---- MODULE Spec2Model ----
(***************************************************************************)
(* Model of skills/ebook_to_md/scripts/ebook_to_md.py.                     *)
(*                                                                         *)
(* Groups of state, one specification each:                                *)
(*   Spec      _EbookToMdImpl.execute and _execute_baidu_complex           *)
(*             (the conversion entry point and the remote task             *)
(*             orchestrator), one action per step of the code;             *)
(*   TableSpec _table_to_html applied to a bounded table;                  *)
(*   ImgSpec   _inline_images_as_base64 / _inline_images_as_local applied  *)
(*             to a bounded document;                                      *)
(*   PassSpec  the normalization passes of _execute_baidu_complex (lines   *)
(*             528-538), and _replace_tables_with_html,                    *)
(*             _collapse_figure_labels and the two versions of             *)
(*             _normalize_figure_to_markdown, applied to a bounded body;   *)
(*   FigSpec   _LocalPdfOcrImpl._extract_figures of                        *)
(*             skills/ebook_to_md/ebook_to_md.py, one action per OCR line; *)
(*   RefSpec   _LocalPdfOcrImpl._insert_figure_refs of the same file;      *)
(*   MainSpec  main calling execute;                                       *)
(*   ConcSpec  the file operations of two invocations of execute running   *)
(*             at the same time.                                           *)
(*                                                                         *)
(* Strings are sequences of tokens [k |-> kind, v |-> parts]; the error    *)
(* marker "错误:" is the token ErrTok, so that startswith("错误:") is a     *)
(* test on the first token.  Python's None is the token sequence NoneStr   *)
(* for strings and the string "None" for scalars.                          *)
(* Sequences are 1-based: matrix position (r, c) of the code is            *)
(* (r + 1, c + 1) here; cell indices keep their 0-based values.            *)
(***************************************************************************)
EXTENDS Integers, Sequences, FiniteSets, TLC

VARIABLES
    \* ---- execute / _execute_baidu_complex ----
    pc,               \* position in execute / _execute_baidu_complex
    kw,               \* the keyword arguments of execute
    input_type,       \* execute: input_type
    temp_ebook_pdf,   \* execute: _temp_ebook_pdf
    temp_image_file,  \* execute: _temp_image_file
    fs,               \* files on disk that this invocation created
    access_token,     \* _execute_baidu_complex: access_token
    task_id,          \* _execute_baidu_complex: task_id
    elapsed,          \* _execute_baidu_complex: elapsed
    status,           \* _execute_baidu_complex: status
    result,           \* _execute_baidu_complex: result (last query result)
    parse_data,       \* _execute_baidu_complex: parse_data
    md_content,       \* _execute_baidu_complex: md_content / its return value
    response,         \* what execute returned
    hist,             \* history: calls made to the collaborators
    \* ---- _table_to_html ----
    table,            \* the table argument
    tpc,              \* "input" before the call, "done" after
    html,             \* the value returned
    \* ---- image reference resolver ----
    doc,              \* the document body given to the resolver
    env,              \* what the collaborators do for each reference
    ipc,              \* "input" before the call, "done" after
    idoc,             \* the resolver's outcome
    \* ---- normalization passes ----
    pin,              \* the body, the parse data and the collaborators given
    ppc,              \* the call to make, "done" after it
    pout,             \* the outcome of the call
    \* ---- _extract_figures ----
    fin,              \* the OCR lines read so far, each with its page
    fpc,              \* position in the loops of _extract_figures
    fout,             \* figures, the files saved, the crops made
    \* ---- _insert_figure_refs ----
    rin,              \* the markdown text and the figure map
    rpc,              \* "call" before the call, "done" after
    rout,             \* the text returned
    \* ---- main ----
    mpc,              \* position in main ("off": execute is called directly)
    mout,             \* what main returned or raised
    \* ---- two concurrent invocations of execute ----
    cinv,             \* per invocation: arguments, position, temporary files
    cops,             \* the file operations made: <<path, invocation, operation>>
    ctmp              \* the number of names mkstemp has handed out

orchVars == <<pc, kw, input_type, temp_ebook_pdf, temp_image_file, fs, access_token,
              task_id, elapsed, status, result, parse_data, md_content, response, hist>>
tableVars == <<table, tpc, html>>
imgVars == <<doc, env, ipc, idoc>>
passVars == <<pin, ppc, pout>>
figVars == <<fin, fpc, fout>>
refVars == <<rin, rpc, rout>>
mainVars == <<mpc, mout>>
concVars == <<cinv, cops, ctmp>>
vars == <<orchVars, tableVars, imgVars, passVars, figVars, refVars, mainVars, concVars>>

(***************************************************************************)
(* Bounds of the model.                                                    *)
(***************************************************************************)
MaxRows == 2
MaxCols == 3
MaxIdx == 2
MaxCells == 3
MaxRefs == 3
MaxTableBody == 6
MaxPassBody == 4
MaxLineBoxes == 2
MaxOcrLines == 2
MaxPages == 2
MaxTextLen == 5
MaxImages == 1
MaxLabelBody == 6
MaxFigBody == 3

(***************************************************************************)
(* Strings as token sequences.                                             *)
(***************************************************************************)
Tok(k, v) == [k |-> k, v |-> v]
Txt(v) == Tok("text", <<v>>)
ErrTok == Txt("ERR:")
WsTok == Tok("ws", <<>>)
NL == Tok("nl", <<>>)
NoneStr == <<Tok("None", <<>>)>>

\* str.startswith("错误:")
StartsWithErr(s) == Len(s) > 0 /\ s[1] = ErrTok

\* whitespace: WsTok is a run of blanks within a line, NL the newline
IsWs(t) == t \in {WsTok, NL}

RECURSIVE LStrip(_)
LStrip(s) == IF s # <<>> /\ IsWs(Head(s)) THEN LStrip(Tail(s)) ELSE s

RECURSIVE RStrip(_)
RStrip(s) ==
    IF s # <<>> /\ IsWs(s[Len(s)]) THEN RStrip(SubSeq(s, 1, Len(s) - 1)) ELSE s

\* str.strip()
Strip(s) == RStrip(LStrip(s))

\* "错误: {}".format(msg)
ErrStr(msg) == <<ErrTok, Txt(msg)>>

RECURSIVE Flatten(_)
Flatten(ss) == IF ss = <<>> THEN <<>> ELSE Head(ss) \o Flatten(Tail(ss))

HasKind(s, k) == \E i \in 1..Len(s) : s[i].k = k

(***************************************************************************)
(* _table_to_html.                                                         *)
(* A table is [has, cells, matrix, markdown]: has is the set of keys the   *)
(* dict holds, cells a list of cells [text |-> chars], matrix a list of    *)
(* rows of cell indices.  The value returned is [kind, rows, text]: kind   *)
(* "html" with the emitted <tr>/<td> structure in rows, kind "markdown"    *)
(* with the raw fallback in text, or kind "IndexError" when a list is read *)
(* outside its length (the exception Python raises).                       *)
(***************************************************************************)
Min(a, b) == IF a < b THEN a ELSE b
Max(a, b) == IF a > b THEN a ELSE b

\* The texts of the cells: cell i of every cell list holds CellChars[i + 1].
CellChars == << <<" ", "A", "&">>, <<"B", "<", "\n">>, <<"C", ">", " ">>, <<"\"", "D">> >>

\* text.replace("&", "&amp;") ... .replace("\n", "<br>"), one character
EscapeChar(ch) ==
    CASE ch = "&" -> "&amp;"
      [] ch = "<" -> "&lt;"
      [] ch = ">" -> "&gt;"
      [] ch = "\"" -> "&quot;"
      [] ch = "\n" -> "<br>"
      [] OTHER -> ch

IsSpace(ch) == ch \in {" ", "\n", "\t"}

RECURSIVE LStripChars(_)
LStripChars(s) == IF s # <<>> /\ IsSpace(Head(s)) THEN LStripChars(Tail(s)) ELSE s

RECURSIVE RStripChars(_)
RStripChars(s) ==
    IF s # <<>> /\ IsSpace(s[Len(s)]) THEN RStripChars(SubSeq(s, 1, Len(s) - 1)) ELSE s

\* lines 328-330: strip, then escape
CellHtmlText(chars) ==
    LET t == RStripChars(LStripChars(chars))
    IN  [i \in 1..Len(t) |-> EscapeChar(t[i])]

\* table.get("cells") or []
TableCells(t) == IF "cells" \in t.has THEN t.cells ELSE <<>>

\* table.get("matrix"): a missing key gives None, which is falsy like []
TableMatrix(t) == IF "matrix" \in t.has THEN t.matrix ELSE <<>>

\* table.get("markdown", "")
TableMarkdown(t) == IF "markdown" \in t.has THEN t.markdown ELSE ""

\* rows = len(matrix)
NumRows(mat) == Len(mat)

RECURSIVE MaxRowLen(_)
MaxRowLen(mat) == IF mat = <<>> THEN 0 ELSE Max(Len(Head(mat)), MaxRowLen(Tail(mat)))

\* cols = max(len(r) for r in matrix) if matrix else 0
NumCols(mat) == MaxRowLen(mat)

InMatrix(mat, r, c) == r \in 1..Len(mat) /\ c \in 1..Len(mat[r])

\* mat[r][c]; a read outside the lists gives -1, which equals no cell index
At(mat, r, c) == IF InMatrix(mat, r, c) THEN mat[r][c] ELSE -1

\* a faulty variant of ColScanEnd: the scan runs to the global column count
ColScanEndGlobal(mat, r) == NumCols(mat)

\* get_colspan, line 290: the scan runs to the end of the row it is in
ColScanEnd(mat, r) == Len(mat[r])

RECURSIVE ColScan(_, _, _, _)
ColScan(mat, r, c, cc) ==
    IF cc > ColScanEnd(mat, r) THEN 0
    ELSE IF At(mat, r, cc) = At(mat, r, c) THEN 1 + ColScan(mat, r, c, cc + 1)
    ELSE 0

get_colspan(mat, r, c) == 1 + ColScan(mat, r, c, c + 1)

\* the positions get_colspan(mat, r, c) reads: (r, c), the matching positions
\* and the first one that differs
ColspanReads(mat, r, c) ==
    {<<r, c>>} \cup
    {<<r, cc>> : cc \in (c + 1)..Min(c + get_colspan(mat, r, c), ColScanEnd(mat, r))}

\* a faulty variant of RowReadGuard: mat[rr][c] is read whatever the row's length
RowReadUnguarded(mat, rr, c) == TRUE

\* get_rowspan, line 301: c < len(mat[rr]) guards the read of mat[rr][c]
RowReadGuard(mat, rr, c) == c <= Len(mat[rr])

RECURSIVE RowScan(_, _, _, _)
RowScan(mat, r, c, rr) ==
    IF rr > NumRows(mat) THEN 0
    ELSE IF RowReadGuard(mat, rr, c) /\ At(mat, rr, c) = At(mat, r, c)
         THEN 1 + RowScan(mat, r, c, rr + 1)
    ELSE 0

get_rowspan(mat, r, c) == 1 + RowScan(mat, r, c, r + 1)

RowspanReads(mat, r, c) ==
    {<<r, c>>} \cup
    {<<rr, c>> : rr \in {x \in (r + 1)..Min(r + get_rowspan(mat, r, c), NumRows(mat)) :
                            RowReadGuard(mat, x, c)}}

\* lines 313-316: the positions one uncovered (r, c) marks in rowspan_at
MarkedBy(mat, r, c) ==
    {<<rr, cc>> \in ((r + 1)..(r + get_rowspan(mat, r, c) - 1)) \X (1..NumCols(mat)) :
        /\ rr <= NumRows(mat)
        /\ cc >= c
        /\ cc <= Min(c + get_colspan(mat, r, c) - 1, Len(mat[rr]))}

\* all positions of the matrix, in the order of the loops of lines 308-309
RECURSIVE RowPositions(_, _, _)
RowPositions(mat, r, c) ==
    IF c > Len(mat[r]) THEN <<>> ELSE <<<<r, c>>>> \o RowPositions(mat, r, c + 1)

RECURSIVE Positions(_, _)
Positions(mat, r) ==
    IF r > NumRows(mat) THEN <<>> ELSE RowPositions(mat, r, 1) \o Positions(mat, r + 1)

\* lines 307-316: [marked |-> rowspan_at, visited |-> the positions not skipped]
RECURSIVE MarkLoop(_, _, _)
MarkLoop(mat, ps, acc) ==
    IF ps = <<>> THEN acc
    ELSE LET p == Head(ps)
         IN  IF p \in acc.marked THEN MarkLoop(mat, Tail(ps), acc)
             ELSE MarkLoop(mat, Tail(ps),
                           [marked |-> acc.marked \cup MarkedBy(mat, p[1], p[2]),
                            visited |-> acc.visited \cup {p}])

RowspanAt(mat) == MarkLoop(mat, Positions(mat, 1), [marked |-> {}, visited |-> {}])

\* line 327: cells[idx_val] if idx_val < len(cells) else {}
CellGuard(cells, idx) == idx < Len(cells)

\* a faulty variant of SpanAttr: the attribute is written whatever the span
SpanAttrAlways(name, span) == <<<<name, span>>>>

\* lines 334-337: a span attribute is written when the span is greater than 1
SpanAttr(name, span) == IF span > 1 THEN <<<<name, span>>>> ELSE <<>>

\* lines 326-338: the <td> emitted for the uncovered position (r, c)
EmitCell(mat, cells, r, c) ==
    LET idx == At(mat, r, c)
        rspan == get_rowspan(mat, r, c)
        cspan == get_colspan(mat, r, c)
    IN  [r |-> r, c |-> c, idx |-> idx,
         text |-> IF CellGuard(cells, idx) /\ idx + 1 \in 1..Len(cells)
                  THEN CellHtmlText(cells[idx + 1].text) ELSE <<>>,
         rowspan |-> rspan, colspan |-> cspan,
         attrs |-> SpanAttr("rowspan", rspan) \o SpanAttr("colspan", cspan)]

\* lines 321-339: the <td>s of row r, from column c on
RECURSIVE EmitRow(_, _, _, _, _)
EmitRow(mat, cells, marked, r, c) ==
    IF c > Len(mat[r]) THEN <<>>
    ELSE IF <<r, c>> \in marked THEN EmitRow(mat, cells, marked, r, c + 1)
    ELSE <<EmitCell(mat, cells, r, c)>>
         \o EmitRow(mat, cells, marked, r, c + get_colspan(mat, r, c))

\* lines 318-341
EmitRows(mat, cells) ==
    LET marked == RowspanAt(mat).marked
    IN  [r \in 1..NumRows(mat) |-> EmitRow(mat, cells, marked, r, 1)]


\* every matrix position the call reads (lines 288-332)
MatrixReads(mat, cells) ==
    LET ra == RowspanAt(mat)
        rows == EmitRows(mat, cells)
        MarkReads(p) ==
            RowspanReads(mat, p[1], p[2]) \cup
            (IF get_rowspan(mat, p[1], p[2]) > 1
             THEN ColspanReads(mat, p[1], p[2]) ELSE {})
        EmitReads(p) == RowspanReads(mat, p[1], p[2]) \cup ColspanReads(mat, p[1], p[2])
    IN  UNION {MarkReads(p) : p \in ra.visited}
        \cup UNION {EmitReads(<<r, rows[r][k].c>>) :
                        <<r, k>> \in {x \in (1..NumRows(mat)) \X (1..NumCols(mat)) :
                                         x[2] <= Len(rows[x[1]])}}

\* every index at which the call reads the cell list (line 327)
CellReads(mat, cells) ==
    LET rows == EmitRows(mat, cells)
    IN  {rows[x[1]][x[2]].idx :
            x \in {y \in (1..NumRows(mat)) \X (1..NumCols(mat)) :
                      /\ y[2] <= Len(rows[y[1]])
                      /\ CellGuard(cells, rows[y[1]][y[2]].idx)}}

\* a read outside a list raises IndexError
ReadsInBounds(mat, cells) ==
    /\ \A p \in MatrixReads(mat, cells) : InMatrix(mat, p[1], p[2])
    /\ \A i \in CellReads(mat, cells) : i \in 0..(Len(cells) - 1)

MarkdownResult(t) == [kind |-> "markdown", rows |-> <<>>, text |-> TableMarkdown(t)]

\* a faulty variant of IsEmptyInput: the cell list is not looked at
IsEmptyInputMatrixOnly(cells, matrix) == matrix = <<>>

\* line 280: if not cells or not matrix
IsEmptyInput(cells, matrix) == cells = <<>> \/ matrix = <<>>

\* lines 277-342
table_to_html(t) ==
    LET cells == TableCells(t)
        matrix == TableMatrix(t)
    IN  IF IsEmptyInput(cells, matrix) THEN MarkdownResult(t)
        ELSE IF NumRows(matrix) = 0 \/ NumCols(matrix) = 0 THEN MarkdownResult(t)
        ELSE IF ~ReadsInBounds(matrix, cells)
             THEN [kind |-> "IndexError", rows |-> <<>>, text |-> ""]
        ELSE [kind |-> "html", rows |-> EmitRows(matrix, cells), text |-> ""]

(***************************************************************************)
(* The tables TableSpec starts from.                                       *)
(***************************************************************************)
SeqsUpTo(S, n) == UNION {[1..k -> S] : k \in 0..n}

MatrixRows == SeqsUpTo(0..MaxIdx, MaxCols)
Matrices == SeqsUpTo(MatrixRows, MaxRows)
CellList(n) == [i \in 1..n |-> [text |-> CellChars[i]]]
CellLists == {CellList(n) : n \in 0..MaxCells}
TableKeys == {"cells", "matrix", "markdown"}

Tables ==
    {[has |-> TableKeys, cells |-> cl, matrix |-> m, markdown |-> "|a|b|"] :
        cl \in CellLists, m \in Matrices}
    \cup {[has |-> TableKeys \ {"markdown"}, cells |-> cl, matrix |-> m, markdown |-> ""] :
        cl \in CellLists, m \in Matrices}
    \cup {[has |-> TableKeys \ {"cells"}, cells |-> <<>>, matrix |-> m, markdown |-> "|a|b|"] :
        m \in Matrices}
    \cup {[has |-> TableKeys \ {"matrix"}, cells |-> cl, matrix |-> <<>>, markdown |-> "|a|b|"] :
        cl \in CellLists}

NoHtml == [kind |-> "none", rows |-> <<>>, text |-> ""]
NoTable == [has |-> {}, cells |-> <<>>, matrix |-> <<>>, markdown |-> ""]

TableIdle == table = NoTable /\ tpc = "off" /\ html = NoHtml

TableInit == table \in Tables /\ tpc = "input" /\ html = NoHtml

\* the call _table_to_html(table)
TableToHtml ==
    /\ tpc = "input"
    /\ UNCHANGED <<orchVars, imgVars, passVars, figVars, refVars, mainVars, concVars>>
    /\ html' = table_to_html(table)
    /\ tpc' = "done"
    /\ UNCHANGED table

(***************************************************************************)
(* Image Reference Resolver: _inline_images_as_base64 and                  *)
(* _inline_images_as_local.                                                *)
(* An <img src=...> tag is the token Tok("img", <<url>>) when written in   *)
(* lower case and Tok("IMG", <<url>>) when written in upper case;          *)
(* IMG_SRC_PATTERN (re.IGNORECASE) matches both.  env says what the        *)
(* collaborators do: env.fetch[n] for the n-th matched reference is "fail" *)
(* (requests.get or raise_for_status raises) or the kind of the leading    *)
(* bytes received, env.write[n] whether write_bytes succeeds for it,       *)
(* env.mkdir whether images_path.mkdir succeeds.                           *)
(***************************************************************************)
ImgTag(url) == Tok("img", <<url>>)
ImgTagUpper(url) == Tok("IMG", <<url>>)

\* IMG_SRC_PATTERN, line 35
MatchesImgSrc(tok) == tok.k \in {"img", "IMG"}

\* _detect_image_mime, lines 243-254
detect_image_mime(raw) ==
    CASE raw = "ffd8" -> "image/jpeg"
      [] raw = "PNG" -> "image/png"
      [] raw \in {"GIF87a", "GIF89a"} -> "image/gif"
      [] raw = "BM" -> "image/bmp"
      [] raw = "RIFF-WEBP" -> "image/webp"
      [] OTHER -> "image/jpeg"

\* ext_map.get(mime, ".jpg"), lines 262-269
ImageExt(mime) ==
    CASE mime = "image/jpeg" -> ".jpg"
      [] mime = "image/png" -> ".png"
      [] mime = "image/gif" -> ".gif"
      [] mime = "image/bmp" -> ".bmp"
      [] mime = "image/webp" -> ".webp"
      [] OTHER -> ".jpg"

\* "  <!-- 下载失败: {} -->".format(e)
FailNote == Tok("note", <<"download failed">>)

\* line 441: "![]({})".format(_fetch_image_as_base64(url))
Base64Ref(url, raw) == Tok("mdimg", <<"data:", detect_image_mime(raw), ";base64,", url>>)

\* line 460: fname = "{}{}".format(idx[0], ext)
ImageFileName(idx, raw) == <<"images_dir/", ToString(idx), ImageExt(detect_image_mime(raw))>>

\* line 463: "![]({})".format(rel_prefix + fname)
LocalRef(idx, raw) == Tok("mdimg", <<"./">> \o ImageFileName(idx, raw))

\* a faulty variant of KeepAnnotated: the original reference is lost
KeepAnnotatedDropped(tok) == <<FailNote>>

\* lines 443 and 465: m.group(0) + "  <!-- 下载失败: {} -->".format(e)
KeepAnnotated(tok) == <<tok, FailNote>>

\* lines 438-443: repl for the n-th match, tok
Base64Repl(tok, outcome) ==
    IF outcome = "fail" THEN KeepAnnotated(tok) ELSE <<Base64Ref(tok.v[1], outcome)>>

\* lines 437-445: out is the text produced so far, n the number of matches so far
RECURSIVE inline_images_as_base64(_, _, _)
inline_images_as_base64(md, fetch, n) ==
    IF md = <<>> THEN <<>>
    ELSE IF MatchesImgSrc(Head(md))
         THEN Base64Repl(Head(md), fetch[n + 1])
              \o inline_images_as_base64(Tail(md), fetch, n + 1)
    ELSE <<Head(md)>> \o inline_images_as_base64(Tail(md), fetch, n)

\* lines 456-465: repl for the n-th match; gives the text, the next idx[0] and
\* the file written
LocalRepl(tok, outcome, writeOk, idx) ==
    IF outcome = "fail"
    THEN [text |-> KeepAnnotated(tok), idx |-> idx, files |-> {}]
    ELSE IF ~writeOk
    THEN [text |-> KeepAnnotated(tok), idx |-> idx + 1, files |-> {}]
    ELSE [text |-> <<LocalRef(idx, outcome)>>, idx |-> idx + 1,
          files |-> {ImageFileName(idx, outcome)}]

RECURSIVE LocalLoop(_, _, _, _)
LocalLoop(md, e, n, idx) ==
    IF md = <<>> THEN [body |-> <<>>, files |-> {}]
    ELSE IF MatchesImgSrc(Head(md))
         THEN LET rp == LocalRepl(Head(md), e.fetch[n + 1], e.write[n + 1], idx)
                  rest == LocalLoop(Tail(md), e, n + 1, rp.idx)
              IN  [body |-> rp.text \o rest.body, files |-> rp.files \cup rest.files]
    ELSE LET rest == LocalLoop(Tail(md), e, n, idx)
         IN  [body |-> <<Head(md)>> \o rest.body, files |-> rest.files]

\* lines 448-467: the mkdir of line 452 is outside every try
inline_images_as_local(md, e) ==
    IF ~e.mkdir THEN [kind |-> "raised", body |-> <<>>, files |-> {}]
    ELSE LET r == LocalLoop(md, e, 0, 0)
         IN  [kind |-> "ok", body |-> r.body, files |-> r.files]

\* lines 531-534: the resolver under the policy config.inline_images
InlineImages(md, e) ==
    IF e.inline_images
    THEN [kind |-> "ok", body |-> inline_images_as_base64(md, e.fetch, 0), files |-> {}]
    ELSE inline_images_as_local(md, e)

(***************************************************************************)
(* The documents and collaborators ImgSpec starts from.                    *)
(***************************************************************************)
FetchOutcomes == {"fail", "PNG", "other"}
DocTokens == {Txt("a"), ImgTag("u1"), ImgTagUpper("u2")}
Docs == SeqsUpTo(DocTokens, MaxRefs)

Envs ==
    {[inline_images |-> TRUE, fetch |-> f, write |-> [i \in 1..MaxRefs |-> TRUE],
      mkdir |-> TRUE] : f \in [1..MaxRefs -> FetchOutcomes]}
    \cup {[inline_images |-> FALSE, fetch |-> f, write |-> w, mkdir |-> m] :
              f \in [1..MaxRefs -> FetchOutcomes], w \in [1..MaxRefs -> BOOLEAN],
              m \in BOOLEAN}

NoEnv == [inline_images |-> TRUE, fetch |-> <<>>, write |-> <<>>, mkdir |-> TRUE]
NoOutcome == [kind |-> "none", body |-> <<>>, files |-> {}]

ImgIdle == doc = <<>> /\ env = NoEnv /\ ipc = "off" /\ idoc = NoOutcome

ImgInit == doc \in Docs /\ env \in Envs /\ ipc = "input" /\ idoc = NoOutcome

\* the call of the resolver on doc
ResolveImages ==
    /\ ipc = "input"
    /\ UNCHANGED <<orchVars, tableVars, passVars, figVars, refVars, mainVars, concVars>>
    /\ idoc' = InlineImages(doc, env)
    /\ ipc' = "done"
    /\ UNCHANGED <<doc, env>>

(***************************************************************************)
(* The passes of _execute_baidu_complex over the body.  The body is a      *)
(* sequence of tokens, NL between its lines: Tok("pipe", _) is a piece of  *)
(* text "|x|" that starts and ends with a pipe, Tok("figure", <<prefix,    *)
(* name, caption>>) a <figure> wrapper, Tok("mdimg", _) an image reference *)
(* ![](...), Tok("label", _) a short word, Tok("heading", _) a piece that  *)
(* starts with #, Tok("caption", _) one that starts with *, a "text" token *)
(* a sentence (it holds a full stop), WsTok blanks.                        *)
(***************************************************************************)
\* insertion into a list sorted by page_num, after equal keys (sorted is stable)
RECURSIVE InsertPage(_, _)
InsertPage(p, ps) ==
    IF ps = <<>> THEN <<p>>
    ELSE IF p.page_num < Head(ps).page_num THEN <<p>> \o ps
    ELSE <<Head(ps)>> \o InsertPage(p, Tail(ps))

\* sorted(pages, key=lambda x: x.get("page_num", 0))
RECURSIVE SortedPages(_)
SortedPages(ps) ==
    IF ps = <<>> THEN <<>>
    ELSE InsertPage(ps[Len(ps)], SortedPages(SubSeq(ps, 1, Len(ps) - 1)))

\* lines 346-348
CollectTables(pd) ==
    LET sp == SortedPages(pd.pages)
    IN  Flatten([i \in 1..Len(sp) |-> sp[i].tables])

\* the index of the last token of the line that holds position i
RECURSIVE LineEnd(_, _)
LineEnd(md, i) == IF i >= Len(md) \/ md[i + 1] = NL THEN i ELSE LineEnd(md, i + 1)

\* the last position of [i, j] that holds no blanks (0 when there is none)
RECURSIVE LastNonWs(_, _, _)
LastNonWs(md, i, j) ==
    IF j < i THEN 0 ELSE IF md[j] # WsTok THEN j ELSE LastNonWs(md, i, j - 1)

\* the last NL of the stretch of whitespace that starts at position i (0 when
\* the stretch holds no NL): what the greedy \s*\n of table_pattern takes
RECURSIVE LastNewline(_, _, _)
LastNewline(md, i, found) ==
    IF i > Len(md) \/ ~IsWs(md[i]) THEN found
    ELSE LastNewline(md, i + 1, IF md[i] = NL THEN i ELSE found)

\* one iteration of table_pattern, \|[^\n]+\|\s*\n, tried at position i: the
\* position of the newline that ends it, 0 when there is no match.  The piece
\* \|[^\n]+\| runs from a pipe to the last pipe of the line, after which only
\* whitespace may come before the newline.
RowMatchEnd(md, i) ==
    IF i > Len(md) \/ md[i].k # "pipe" THEN 0
    ELSE LET e == LastNonWs(md, i, LineEnd(md, i))
         IN  IF md[e].k = "pipe" THEN LastNewline(md, e + 1, 0) ELSE 0

\* table_pattern, (\|[^\n]+\|\s*\n)+, tried at position i: the end of the match
RECURSIVE RunMatchEnd(_, _)
RunMatchEnd(md, i) ==
    LET n == RowMatchEnd(md, i)
    IN  IF n = 0 THEN 0
        ELSE IF RowMatchEnd(md, n + 1) # 0 THEN RunMatchEnd(md, n + 1)
        ELSE n

\* lines 354-359: repl for the match md[i..n], idx being idx[0]
TableRepl(md, i, n, tables, idx) ==
    IF idx >= Len(tables) THEN [text |-> SubSeq(md, i, n), idx |-> idx]
    ELSE [text |-> <<Tok("htmltable", <<tables[idx + 1]>>), NL>>, idx |-> idx + 1]

\* line 361: table_pattern.sub(repl, md_content), from position i on
RECURSIVE TableSub(_, _, _, _)
TableSub(md, i, tables, idx) ==
    IF i > Len(md) THEN <<>>
    ELSE LET n == RunMatchEnd(md, i)
         IN  IF n = 0 THEN <<md[i]>> \o TableSub(md, i + 1, tables, idx)
             ELSE LET rp == TableRepl(md, i, n, tables, idx)
                  IN  rp.text \o TableSub(md, n + 1, tables, rp.idx)

\* _replace_tables_with_html, lines 345-361
replace_tables_with_html(md, pd) ==
    LET tables == CollectTables(pd)
    IN  IF tables = <<>> THEN md ELSE TableSub(md, 1, tables, 0)

\* _build_markdown_from_pages, lines 364-370
build_markdown_from_pages(pages) ==
    LET sp == SortedPages(pages)
        keep == SelectSeq(sp, LAMBDA p : Strip(p.text) # <<>>)
    IN  Flatten([i \in 1..Len(keep) |->
                    (IF i > 1 THEN <<NL, NL>> ELSE <<>>) \o Strip(keep[i].text)])

\* the wrapper Tok("figure", <<prefix, name, caption>>) holds the image
\* reference ![](prefix + name); Tok("figure", <<prefix, name, caption, tag>>)
\* holds an img tag: tag "img" is <img src="prefix + name">, tag "IMG" the
\* same written <IMG SRC="prefix + name">
WrapperShape(tok) == IF Len(tok.v) = 4 THEN tok.v[4] ELSE "md"

\* (m.group(2) or "").strip(), for the captions of the model
CapStrip(cap) ==
    CASE cap = " " -> ""
      [] cap = " cap " -> "cap"
      [] OTHER -> cap

\* lines 380-384: group 1, or the src attribute found by the case-sensitive
\* search of line 383, or "."
WrapperPath(tok) ==
    IF WrapperShape(tok) = "IMG" THEN <<".">> ELSE <<tok.v[1], tok.v[2]>>

\* lines 386-387: "./" is put before a path that starts with neither "./"
\* nor "data:"
PrefixedPath(path) == IF path[1] \in {"./", "data:"} THEN path ELSE <<"./">> \o path

\* lines 379-391: _repl of _normalize_figure_to_markdown
FigureRepl(tok) ==
    LET cap == CapStrip(tok.v[3])
        path == PrefixedPath(WrapperPath(tok))
    IN  IF cap # "" THEN <<Tok("mdimg", path), NL, NL, Tok("caption", <<cap>>)>>
        ELSE <<Tok("mdimg", path)>>

\* _normalize_figure_to_markdown, lines 373-393
normalize_figure_to_markdown(md) ==
    Flatten([i \in 1..Len(md) |-> IF md[i].k = "figure" THEN FigureRepl(md[i]) ELSE <<md[i]>>])

\* skills/ebook_to_md/ebook_to_md.py, lines 427-432: _repl of the
\* _normalize_figure_to_markdown of that file; group 1 is None for a wrapper
\* with an img tag, and path.startswith raises
LocalFigureRepl(tok) ==
    IF WrapperShape(tok) # "md" THEN [kind |-> "raised", text |-> <<>>]
    ELSE [kind |-> "ok",
          text |-> IF CapStrip(tok.v[3]) = ""
                   THEN <<Tok("mdimg", PrefixedPath(<<tok.v[1], tok.v[2]>>))>>
                   ELSE <<Tok("altimg", <<CapStrip(tok.v[3])>>
                                            \o PrefixedPath(<<tok.v[1], tok.v[2]>>))>>]

\* skills/ebook_to_md/ebook_to_md.py, lines 421-434
local_normalize_figure_to_markdown(md) ==
    IF \E i \in 1..Len(md) : md[i].k = "figure" /\ LocalFigureRepl(md[i]).kind = "raised"
    THEN [kind |-> "raised", body |-> <<>>]
    ELSE [kind |-> "ok",
          body |-> Flatten([i \in 1..Len(md) |->
                               IF md[i].k = "figure" THEN LocalFigureRepl(md[i]).text
                               ELSE <<md[i]>>])]

\* md_content.split("\n")
RECURSIVE SplitLines(_)
SplitLines(md) ==
    IF md = <<>> THEN << <<>> >>
    ELSE LET rest == SplitLines(Tail(md))
         IN  IF Head(md) = NL THEN << <<>> >> \o rest
             ELSE << <<Head(md)>> \o Head(rest) >> \o Tail(rest)

\* a faulty variant of JoinLines: empty lines are not written
RECURSIVE JoinLinesNonEmpty(_)
JoinLinesNonEmpty(lines) ==
    IF lines = <<>> THEN <<>>
    ELSE LET rest == JoinLinesNonEmpty(Tail(lines))
         IN  IF Head(lines) = <<>> THEN rest
             ELSE IF rest = <<>> THEN Head(lines)
             ELSE Head(lines) \o <<NL>> \o rest

\* "\n".join(out)
RECURSIVE JoinLines(_)
JoinLines(lines) ==
    IF lines = <<>> THEN <<>>
    ELSE IF Len(lines) = 1 THEN lines[1]
    ELSE lines[1] \o <<NL>> \o JoinLines(Tail(lines))

\* line 397
FIG_LABEL_MAX_LEN == 28

\* FIG_IMG_LINE, line 398: ^\s*!\[\]\([^\)]*\)\s*$
FigImgLine(line) ==
    LET s == SelectSeq(line, LAMBDA t : t # WsTok)
    IN  Len(s) = 1 /\ s[1].k = "mdimg"

\* the number of characters of a token: a word has 5, "|x|" 3, blanks 1, the
\* error marker 3, every other piece is longer than a label may be
TokLen(t) ==
    CASE t.k = "label" -> 5
      [] t.k = "pipe" -> 3
      [] t.k = "ws" -> 1
      [] t = ErrTok -> 3
      [] OTHER -> FIG_LABEL_MAX_LEN + 1

RECURSIVE StrLen(_)
StrLen(s) == IF s = <<>> THEN 0 ELSE TokLen(Head(s)) + StrLen(Tail(s))

\* line 418: cur.strip().startswith(("#", "-", "*", "<"))
StartsMarkup(s) ==
    s[1].k \in {"heading", "caption", "figure", "img", "IMG", "htmltable", "note"}

\* line 420: a sentence-ending mark in s
HasSentenceEnd(s) == \E i \in 1..Len(s) : s[i].k = "text" /\ s[i] # ErrTok

\* a faulty variant of EndsLabels: sentences and long lines count as labels
EndsLabelsMarkupOnly(cur, s) == FigImgLine(cur) \/ StartsMarkup(s)

\* lines 418-423: the line cur, stripped to s, ends the scan for labels
EndsLabels(cur, s) ==
    \/ FigImgLine(cur) \/ StartsMarkup(s)
    \/ HasSentenceEnd(s)
    \/ StrLen(s) > FIG_LABEL_MAX_LEN

\* lines 425-427: re.split(r"[\s]+", s), the parts written with ";" between
RECURSIVE Parts(_)
Parts(s) ==
    IF s = <<>> THEN <<>>
    ELSE IF Head(s) = WsTok
         THEN (IF Len(s) > 1 /\ s[2] = WsTok THEN <<>> ELSE <<";">>) \o Parts(Tail(s))
    ELSE Head(s).v \o Parts(Tail(s))

\* lines 412-428: the scan after an image line; gives labels and the next i
RECURSIVE LabelScan(_, _, _)
LabelScan(lines, i, labels) ==
    IF i > Len(lines) THEN [labels |-> labels, i |-> i]
    ELSE LET cur == lines[i]
             s == Strip(cur)
         IN  IF s = <<>> THEN LabelScan(lines, i + 1, labels)
             ELSE IF EndsLabels(cur, s) THEN [labels |-> labels, i |-> i]
             ELSE LabelScan(lines, i + 1,
                            labels \o (IF labels = <<>> THEN <<>> ELSE <<";">>) \o Parts(s))

\* lines 406-433: the lines of out, from line i on
RECURSIVE CollapseLoop(_, _)
CollapseLoop(lines, i) ==
    IF i > Len(lines) THEN <<>>
    ELSE IF FigImgLine(lines[i])
         THEN LET sc == LabelScan(lines, i + 1, <<>>)
              IN  <<lines[i]>>
                  \o (IF sc.labels # <<>> THEN << <<Tok("labels", sc.labels)>> >> ELSE <<>>)
                  \o CollapseLoop(lines, sc.i)
    ELSE <<lines[i]>> \o CollapseLoop(lines, i + 1)

\* _collapse_figure_labels, lines 401-434
collapse_figure_labels(md) == JoinLines(CollapseLoop(SplitLines(md), 1))

\* line 530: "img src=" in md_content (a case-sensitive substring test)
HasImgSrc(md) == HasKind(md, "img")

\* line 535: "<figure>" in md_content or "<figcaption>" in md_content
HasFigure(md) == HasKind(md, "figure")

(***************************************************************************)
(* execute and _execute_baidu_complex.                                     *)
(***************************************************************************)
\* _execute_baidu_complex, lines 490-491
max_wait == 120
poll_interval == 5

\* _detect_input_type, lines 41-58, on the kinds of input the model draws
detect_input_type(input) ==
    CASE input = "" -> ""
      [] input = "data:image" -> "image"
      [] input = "x.pdf" -> "pdf"
      [] input = "x.png" -> "image"
      [] input = "x.mobi" -> "mobi"
      [] input = "x.epub" -> "epub"
      [] OTHER -> ""

\* lines 561-564
IsPath(input) == input # "data:image"

\* the files of the model are named by tuples of strings; None is NoFile
NoFile == <<>>
TmpPdf == <<"tmp", ".pdf">>
TmpPng == <<"tmp", ".png">>

Fail(err) == [success |-> FALSE, error |-> err, markdown |-> <<>>, output_path |-> NoFile,
              exc |-> FALSE]
Raised(err) == [Fail(err) EXCEPT !.exc = TRUE]
Success(md, out) == [success |-> TRUE, error |-> <<>>, markdown |-> md, output_path |-> out,
                     exc |-> FALSE]
NoResponse == [success |-> FALSE, error |-> <<>>, markdown |-> <<>>, output_path |-> NoFile,
               exc |-> FALSE]

\* a faulty variant of ParseFailedStr: nothing is returned without a message
ParseFailedNoMarker(res) ==
    IF res.task_error \in {"missing", ""} THEN <<>>
    ELSE <<ErrTok, Txt("parse failed"), Txt(res.task_error)>>

\* line 504: "错误: 文档解析失败: {}".format(result.get("task_error", "未知错误"))
ParseFailedStr(res) ==
    <<ErrTok, Txt("parse failed"),
      Txt(IF res.task_error = "missing" THEN "unknown error" ELSE res.task_error)>>

\* line 508
TimeoutStr == <<ErrTok, Txt("timeout")>>

NoResult == [status |-> "None", task_error |-> "missing", markdown_url |-> FALSE,
             parse_result_url |-> FALSE]

\* what a status query can return (result of _query_parser_result)
QueryResults ==
    {[status |-> "success", task_error |-> "missing", markdown_url |-> m,
      parse_result_url |-> p] : m \in BOOLEAN, p \in BOOLEAN}
    \cup {[status |-> "failed", task_error |-> te, markdown_url |-> FALSE,
           parse_result_url |-> FALSE] : te \in {"missing", "", "bad page"}}
    \cup {[status |-> st, task_error |-> "missing", markdown_url |-> FALSE,
           parse_result_url |-> FALSE] : st \in {"running", "None"}}

TaskIds == {"t1", "t2"}

\* what the parse_result_url download can give
NoParseData == [kind |-> "None", keys |-> {}, pages |-> <<>>]
Page(n, text, tables) == [page_num |-> n, text |-> text, tables |-> tables]
ParseDatas ==
    {[kind |-> "dict", keys |-> {}, pages |-> <<>>],
     [kind |-> "dict", keys |-> {"pages"}, pages |-> <<Page(1, <<WsTok>>, <<>>)>>],
     [kind |-> "dict", keys |-> {"pages"},
      pages |-> <<Page(2, <<Txt("p2")>>, <<"T2">>), Page(1, <<WsTok, Txt("p1")>>, <<"T1">>)>>]}

\* if parse_data: (None and {} are falsy)
Truthy(pd) == pd.kind = "dict" /\ pd.keys # {}

\* what the markdown_url download can give
Bodies ==
    {<<>>, <<WsTok>>, <<Txt("a"), WsTok>>, <<ErrTok, Txt("a")>>,
     <<Txt("a"), ImgTag("u1")>>, <<ImgTagUpper("u2")>>,
     <<Tok("pipe", <<"|x|">>), NL, Tok("figure", <<"", "f.png", "cap">>), NL,
       Tok("label", <<"l1">>)>>,
     <<ImgTag("u1"), NL, Tok("pipe", <<"|x|">>), NL, Tok("figure", <<"", "f.png", "">>)>>}

\* what the collaborators of the resolver do during one conversion
OrchEnvs ==
    {[inline_images |-> TRUE, fetch |-> [i \in 1..MaxRefs |-> o],
      write |-> [i \in 1..MaxRefs |-> TRUE], mkdir |-> TRUE] : o \in {"fail", "PNG"}}
    \cup {[inline_images |-> FALSE, fetch |-> [i \in 1..MaxRefs |-> "PNG"],
           write |-> [i \in 1..MaxRefs |-> w], mkdir |-> m] : w \in BOOLEAN, m \in BOOLEAN}

\* history of the calls made: token requests, submissions and the outcome of the
\* last one, status queries, the task ids queried, the statuses seen, downloads
\* tried, the passes run, the body the markdown_url download gave (None when
\* it was not tried or failed), the text written to the output file (None
\* when it was not written)
NoHist == [token_reqs |-> 0, submits |-> 0, submitted |-> "", queries |-> 0, polled |-> {},
           seen |-> {}, downloads |-> 0, passes |-> <<>>, body |-> NoneStr,
           written |-> NoneStr]

Kwargs ==
    [input : {"", "x.pdf", "x.png", "x.mobi", "x.epub", "x.txt", "data:image"},
     exists : BOOLEAN,
     output_path : {"None", "out.txt"},
     ocr_backend : {"baidu", "local"},
     inline_images : BOOLEAN]

OrchIdle ==
    /\ pc = "off" /\ kw = [input |-> "", exists |-> FALSE, output_path |-> "None",
                           ocr_backend |-> "baidu", inline_images |-> TRUE]
    /\ input_type = "" /\ temp_ebook_pdf = NoFile /\ temp_image_file = NoFile
    /\ fs = {} /\ access_token = "None" /\ task_id = "None" /\ elapsed = 0
    /\ status = "None" /\ result = NoResult /\ parse_data = NoParseData
    /\ md_content = NoneStr /\ response = NoResponse /\ hist = NoHist

OrchInit ==
    /\ pc = "start"
    /\ kw \in {k \in Kwargs : IsPath(k.input) \/ k.exists}
    /\ input_type = "" /\ temp_ebook_pdf = NoFile /\ temp_image_file = NoFile
    /\ fs = {} /\ access_token = "None" /\ task_id = "None" /\ elapsed = 0
    /\ status = "None" /\ result = NoResult /\ parse_data = NoParseData
    /\ md_content = NoneStr /\ response = NoResponse /\ hist = NoHist

\* return before the try of line 591: no finally clause runs
ReturnEarly(resp) == pc' = "returned" /\ response' = resp

\* return or raise inside the try: the finally clause of line 644 runs next
ReturnInTry(resp) == pc' = "finally" /\ response' = resp

\* execute, lines 547-566 and 576-577
Validate ==
    /\ pc = "start"
    /\ UNCHANGED <<tableVars, imgVars, passVars, figVars, refVars, mainVars, concVars>>
    /\ input_type' = detect_input_type(kw.input)
    /\ IF kw.input = "" THEN ReturnEarly(Fail(<<Txt("input_path empty")>>))
       ELSE IF input_type' = "" THEN ReturnEarly(Fail(<<Txt("unsupported format")>>))
       ELSE IF IsPath(kw.input) /\ ~kw.exists THEN ReturnEarly(Fail(<<Txt("no such file")>>))
       ELSE /\ pc' = IF input_type' \in {"mobi", "epub"} THEN "convert" ELSE "backend"
            /\ UNCHANGED response
    /\ UNCHANGED <<kw, temp_ebook_pdf, temp_image_file, fs, access_token, task_id, elapsed,
                   status, result, parse_data, md_content, hist>>

\* execute, lines 568-575, with _convert_ebook_to_pdf, lines 61-103: the version
\* probe fails before mkstemp; a failed conversion removes the file it made
ConvertEbook ==
    /\ pc = "convert"
    /\ UNCHANGED <<tableVars, imgVars, passVars, figVars, refVars, mainVars, concVars>>
    /\ \E outcome \in {"no calibre", "conversion failed", "ok"} :
          IF outcome = "ok"
          THEN /\ fs' = fs \cup {TmpPdf}
               /\ temp_ebook_pdf' = TmpPdf
               /\ input_type' = "pdf"
               /\ pc' = "backend"
               /\ UNCHANGED response
          ELSE /\ ReturnEarly(Fail(<<Txt(outcome)>>))
               /\ UNCHANGED <<fs, temp_ebook_pdf, input_type>>
    /\ UNCHANGED <<kw, temp_image_file, access_token, task_id, elapsed, status, result,
                   parse_data, md_content, hist>>

\* execute, lines 579-580
CheckBackend ==
    /\ pc = "backend"
    /\ UNCHANGED <<tableVars, imgVars, passVars, figVars, refVars, mainVars, concVars>>
    /\ IF kw.ocr_backend # "baidu" THEN ReturnEarly(Fail(<<Txt("only baidu")>>))
       ELSE pc' = "try" /\ UNCHANGED response
    /\ UNCHANGED <<kw, input_type, temp_ebook_pdf, temp_image_file, fs, access_token, task_id,
                   elapsed, status, result, parse_data, md_content, hist>>

\* execute, lines 590-606: a base64 image is decoded into a temporary file
EnterTry ==
    /\ pc = "try"
    /\ UNCHANGED <<tableVars, imgVars, passVars, figVars, refVars, mainVars, concVars>>
    /\ IF input_type = "image" /\ ~IsPath(kw.input)
       THEN \E outcome \in {"unreadable", "undecodable", "write failed", "ok"} :
               CASE outcome \in {"unreadable", "undecodable"} ->
                       /\ ReturnInTry(Fail(<<Txt(outcome)>>))
                       /\ UNCHANGED <<fs, temp_image_file>>
                 [] outcome = "write failed" ->
                       /\ ReturnInTry(Raised(<<Txt(outcome)>>))
                       /\ fs' = fs \cup {TmpPng}
                       /\ temp_image_file' = TmpPng
                 [] OTHER ->
                       /\ pc' = "token"
                       /\ fs' = fs \cup {TmpPng}
                       /\ temp_image_file' = TmpPng
                       /\ UNCHANGED response
       ELSE pc' = "token" /\ UNCHANGED <<fs, temp_image_file, response>>
    /\ UNCHANGED <<kw, input_type, temp_ebook_pdf, access_token, task_id, elapsed, status,
                   result, parse_data, md_content, hist>>

\* _execute_baidu_complex returns md: back in execute at line 608 / 616
Return(md) == pc' = "check" /\ md_content' = md

\* _execute_baidu_complex, lines 479-485 (the file exists: execute checked it
\* or has just written it)
GetToken ==
    /\ pc = "token"
    /\ UNCHANGED <<tableVars, imgVars, passVars, figVars, refVars, mainVars, concVars>>
    /\ hist' = [hist EXCEPT !.token_reqs = @ + 1]
    /\ \E tok \in {"None", "token"} :
          /\ access_token' = tok
          /\ IF tok = "None" THEN Return(ErrStr("no access token"))
             ELSE pc' = "submit" /\ UNCHANGED md_content
    /\ UNCHANGED <<kw, input_type, temp_ebook_pdf, temp_image_file, fs, task_id, elapsed,
                   status, result, parse_data, response>>

\* a faulty variant of SubmitTaskId: a response without task_id is not refused
SubmitTaskIdUnchecked(outcome) ==
    IF outcome \in TaskIds \cup {"no task_id"} THEN outcome ELSE "None"

\* the task_id _submit_parser_task returns ("None": it raised), lines 198-215
SubmitTaskId(outcome) == IF outcome \in TaskIds THEN outcome ELSE "None"

\* _execute_baidu_complex, lines 486-489, with _submit_parser_task
Submit ==
    /\ pc = "submit"
    /\ UNCHANGED <<tableVars, imgVars, passVars, figVars, refVars, mainVars, concVars>>
    /\ \E outcome \in {"open failed", "http error", "api error", "no task_id"} \cup TaskIds :
          /\ hist' = [hist EXCEPT !.submits = @ + 1, !.submitted = outcome]
          /\ task_id' = SubmitTaskId(outcome)
          /\ IF task_id' = "None" THEN Return(ErrStr(outcome))
             ELSE pc' = "poll" /\ UNCHANGED md_content
    /\ UNCHANGED <<kw, input_type, temp_ebook_pdf, temp_image_file, fs, access_token, elapsed,
                   status, result, parse_data, response>>

\* lines 501-503: the statuses that end the loop, and all the others
StatusClass(st) == IF st \in {"success", "failed"} THEN st ELSE "non-terminal"

\* a faulty variant of LoopGuard: one more iteration
LoopGuardInclusive(e) == e <= max_wait

\* line 495: while elapsed < max_wait
LoopGuard(e) == e < max_wait

\* one iteration of the loop of lines 495-506, with _query_parser_result
Poll ==
    /\ pc = "poll"
    /\ UNCHANGED <<tableVars, imgVars, passVars, figVars, refVars, mainVars, concVars>>
    /\ LoopGuard(elapsed)
    /\ \E outcome \in {"http error", "api error"} :
          \/ /\ hist' = [hist EXCEPT !.queries = @ + 1, !.polled = @ \cup {task_id},
                                     !.seen = @ \cup {"error"}]
             /\ Return(ErrStr(outcome))
             /\ UNCHANGED <<result, status, elapsed>>
          \/ \E res \in QueryResults :
                /\ hist' = [hist EXCEPT !.queries = @ + 1, !.polled = @ \cup {task_id},
                                        !.seen = @ \cup {StatusClass(res.status)}]
                /\ result' = res
                /\ status' = res.status
                /\ CASE res.status = "success" ->
                           pc' = "after loop" /\ UNCHANGED <<md_content, elapsed>>
                     [] res.status = "failed" ->
                           Return(ParseFailedStr(res)) /\ UNCHANGED elapsed
                     [] OTHER ->
                           /\ elapsed' = elapsed + poll_interval
                           /\ UNCHANGED <<pc, md_content>>
    /\ UNCHANGED <<kw, input_type, temp_ebook_pdf, temp_image_file, fs, access_token, task_id,
                   parse_data, response>>

\* line 495: the loop ends by its condition
LoopExit ==
    /\ pc = "poll"
    /\ UNCHANGED <<tableVars, imgVars, passVars, figVars, refVars, mainVars, concVars>>
    /\ ~LoopGuard(elapsed)
    /\ pc' = "after loop"
    /\ UNCHANGED <<kw, input_type, temp_ebook_pdf, temp_image_file, fs, access_token, task_id,
                   elapsed, status, result, parse_data, md_content, response, hist>>

\* a faulty variant of AfterLoop: a timeout submits the document again
AfterLoopResubmit ==
    /\ pc = "after loop"
    /\ UNCHANGED <<tableVars, imgVars, passVars, figVars, refVars, mainVars, concVars>>
    /\ IF status # "success" THEN pc' = "submit" /\ elapsed' = 0
       ELSE pc' = "download" /\ UNCHANGED elapsed
    /\ UNCHANGED <<kw, input_type, temp_ebook_pdf, temp_image_file, fs, access_token, task_id,
                   status, result, parse_data, md_content, response, hist>>

\* lines 507-508
AfterLoop ==
    /\ pc = "after loop"
    /\ UNCHANGED <<tableVars, imgVars, passVars, figVars, refVars, mainVars, concVars>>
    /\ IF status # "success" THEN Return(TimeoutStr)
       ELSE pc' = "download" /\ UNCHANGED md_content
    /\ UNCHANGED <<kw, input_type, temp_ebook_pdf, temp_image_file, fs, access_token, task_id,
                   elapsed, status, result, parse_data, response, hist>>

\* a faulty variant of PassOrder: figure normalization comes first
PassOrderFiguresFirst == <<"figures", "tables", "images", "labels">>

\* a faulty variant of PassOrder: the resolver comes last
PassOrderResolverLast == <<"tables", "figures", "labels", "images">>

\* lines 528-537: the order in which the passes stand in the code
PassOrder == <<"tables", "images", "figures", "labels">>

\* where control goes after a pass: the next pass, or the return of line 538
AfterPass(pass) ==
    LET i == CHOOSE k \in 1..Len(PassOrder) : PassOrder[k] = pass
    IN  IF i = Len(PassOrder) THEN "check" ELSE PassOrder[i + 1]

\* lines 509-527: a failed download leaves None
Download ==
    /\ pc = "download"
    /\ UNCHANGED <<tableVars, imgVars, passVars, figVars, refVars, mainVars, concVars>>
    /\ \E pd \in IF result.parse_result_url THEN ParseDatas \cup {NoParseData}
                 ELSE {NoParseData},
          md \in IF result.markdown_url THEN Bodies \cup {NoneStr} ELSE {NoneStr} :
          /\ parse_data' = pd
          /\ hist' = [hist EXCEPT !.downloads =
                         @ + (IF result.parse_result_url THEN 1 ELSE 0)
                           + (IF result.markdown_url THEN 1 ELSE 0),
                                  !.body = md]
          /\ IF md = NoneStr \/ Strip(md) = <<>>
             THEN IF Truthy(pd)
                  THEN pc' = PassOrder[1] /\ md_content' = build_markdown_from_pages(pd.pages)
                  ELSE Return(ErrStr("no parse result"))
             ELSE pc' = PassOrder[1] /\ md_content' = md
    /\ UNCHANGED <<kw, input_type, temp_ebook_pdf, temp_image_file, fs, access_token, task_id,
                   elapsed, status, result, response>>

Ran(pass) == hist' = [hist EXCEPT !.passes = Append(@, pass)]

\* lines 528-529
NormTables ==
    /\ pc = "tables"
    /\ UNCHANGED <<tableVars, imgVars, passVars, figVars, refVars, mainVars, concVars>>
    /\ IF Truthy(parse_data)
       THEN md_content' = replace_tables_with_html(md_content, parse_data) /\ Ran("tables")
       ELSE UNCHANGED <<md_content, hist>>
    /\ pc' = AfterPass("tables")
    /\ UNCHANGED <<kw, input_type, temp_ebook_pdf, temp_image_file, fs, access_token, task_id,
                   elapsed, status, result, parse_data, response>>

\* lines 530-534: an exception of the resolver is caught nowhere in
\* _execute_baidu_complex
NormImages ==
    /\ pc = "images"
    /\ UNCHANGED <<tableVars, imgVars, passVars, figVars, refVars, mainVars, concVars>>
    /\ IF HasImgSrc(md_content)
       THEN \E e \in {x \in OrchEnvs : x.inline_images = kw.inline_images} :
               LET r == InlineImages(md_content, e)
               IN  /\ Ran("images")
                   /\ IF r.kind = "raised"
                      THEN /\ ReturnInTry(Raised(<<Txt("mkdir failed")>>))
                           /\ UNCHANGED <<md_content, fs>>
                      ELSE /\ md_content' = r.body
                           /\ fs' = fs \cup r.files
                           /\ pc' = AfterPass("images")
                           /\ UNCHANGED response
       ELSE pc' = AfterPass("images") /\ UNCHANGED <<md_content, fs, response, hist>>
    /\ UNCHANGED <<kw, input_type, temp_ebook_pdf, temp_image_file, access_token, task_id,
                   elapsed, status, result, parse_data>>

\* lines 535-536
NormFigures ==
    /\ pc = "figures"
    /\ UNCHANGED <<tableVars, imgVars, passVars, figVars, refVars, mainVars, concVars>>
    /\ IF HasFigure(md_content)
       THEN md_content' = normalize_figure_to_markdown(md_content) /\ Ran("figures")
       ELSE UNCHANGED <<md_content, hist>>
    /\ pc' = AfterPass("figures")
    /\ UNCHANGED <<kw, input_type, temp_ebook_pdf, temp_image_file, fs, access_token, task_id,
                   elapsed, status, result, parse_data, response>>

\* lines 537-538
NormLabels ==
    /\ pc = "labels"
    /\ UNCHANGED <<tableVars, imgVars, passVars, figVars, refVars, mainVars, concVars>>
    /\ md_content' = collapse_figure_labels(md_content)
    /\ pc' = AfterPass("labels")
    /\ Ran("labels")
    /\ UNCHANGED <<kw, input_type, temp_ebook_pdf, temp_image_file, fs, access_token, task_id,
                   elapsed, status, result, parse_data, response>>

\* line 628-629: the suffix of the output file is forced to .md
OutFile(output_path) == <<"out", ".md">>

\* a faulty variant of NoText: an empty body is accepted
NoTextIgnored(markdown) == FALSE

\* lines 611 and 619: if not markdown
NoText(markdown) == markdown = <<>>

\* a faulty variant of final_content: the file is left empty
FinalContentEmpty(markdown) == <<>>

\* line 624: final_content = markdown
final_content(markdown) == markdown

\* execute, lines 607-642
Finish ==
    /\ pc = "check"
    /\ UNCHANGED <<tableVars, imgVars, passVars, figVars, refVars, mainVars, concVars>>
    /\ IF StartsWithErr(md_content)
       THEN ReturnInTry(Fail(md_content)) /\ UNCHANGED fs
       ELSE IF NoText(Strip(md_content))
       THEN ReturnInTry(Fail(<<Txt("no text recognized")>>)) /\ UNCHANGED fs
       ELSE IF kw.output_path = "None"
       THEN ReturnInTry(Success(Strip(md_content), NoFile)) /\ UNCHANGED fs
       ELSE \E writeOk \in BOOLEAN :
               IF writeOk
               THEN /\ ReturnInTry(Success(Strip(md_content), OutFile(kw.output_path)))
                    /\ fs' = fs \cup {OutFile(kw.output_path)}
               ELSE ReturnInTry(Raised(<<Txt("write failed")>>)) /\ UNCHANGED fs
    /\ hist' = IF pc' = "finally" /\ response'.success /\ response'.output_path # NoFile
               THEN [hist EXCEPT !.written = final_content(Strip(md_content))]
               ELSE hist
    /\ UNCHANGED <<kw, input_type, temp_ebook_pdf, temp_image_file, access_token, task_id,
                   elapsed, status, result, parse_data, md_content>>

\* the finally clause, lines 644-654 (os.remove of a file this call made succeeds)
Cleanup ==
    /\ pc = "finally"
    /\ UNCHANGED <<tableVars, imgVars, passVars, figVars, refVars, mainVars, concVars>>
    /\ fs' = fs \ {temp_ebook_pdf, temp_image_file}
    /\ pc' = IF response.exc THEN "raised" ELSE "returned"
    /\ UNCHANGED <<kw, input_type, temp_ebook_pdf, temp_image_file, access_token, task_id,
                   elapsed, status, result, parse_data, md_content, response, hist>>

(***************************************************************************)
(* main, lines 657-696: the entry point of the skill.  It checks the input *)
(* path, calls execute inside a try and turns the response, or the         *)
(* exception, into one string.                                             *)
(***************************************************************************)
NoMsg == [raised |-> FALSE, text |-> <<>>]

MainIdle == mpc = "off" /\ mout = NoMsg

\* line 668: (... or "baidu").lower()
Lower(str) == IF str = "BAIDU" THEN "baidu" ELSE str

MainKwargs == Kwargs \cup {[k EXCEPT !.ocr_backend = "BAIDU"] : k \in Kwargs}

MainInit ==
    /\ mpc = "check" /\ mout = NoMsg
    /\ pc = "main"
    /\ kw \in {k \in MainKwargs : IsPath(k.input) \/ k.exists}
    /\ input_type = "" /\ temp_ebook_pdf = NoFile /\ temp_image_file = NoFile
    /\ fs = {} /\ access_token = "None" /\ task_id = "None" /\ elapsed = 0
    /\ status = "None" /\ result = NoResult /\ parse_data = NoParseData
    /\ md_content = NoneStr /\ response = NoResponse /\ hist = NoHist

PREVIEW_LEN == 500

\* line 687: content[:500], in whole tokens
RECURSIVE Prefix(_, _)
Prefix(str, n) ==
    IF str = <<>> \/ TokLen(Head(str)) > n THEN <<>>
    ELSE <<Head(str)>> \o Prefix(Tail(str), n - TokLen(Head(str)))

\* lines 683-689
SuccessMsg(resp) ==
    <<Txt("converted")>>
        \o (IF resp.output_path # NoFile THEN <<Txt("written to")>> ELSE <<>>)
        \o (IF resp.markdown # <<>>
            THEN <<NL, NL, Txt("preview:"), NL>> \o Strip(Prefix(resp.markdown, PREVIEW_LEN))
                     \o (IF StrLen(resp.markdown) > PREVIEW_LEN THEN <<Txt("...")>> ELSE <<>>)
            ELSE <<>>)

\* a faulty variant of ExceptException: main has no handler
NoHandler(resp) == FALSE

\* lines 692-694: the handlers of the try catch every Exception
ExceptException(resp) == resp.exc

\* lines 674-696: what main makes of the outcome of execute
main_result(resp) ==
    IF resp.exc
    THEN IF ExceptException(resp)
         THEN [raised |-> FALSE, text |-> <<ErrTok>> \o resp.error]
         ELSE [raised |-> TRUE, text |-> resp.error]
    ELSE IF resp.success THEN [raised |-> FALSE, text |-> SuccessMsg(resp)]
    ELSE [raised |-> FALSE, text |-> <<ErrTok>> \o resp.error]

\* lines 665-675: the parameters are read, an empty input path is refused,
\* execute is called
MainCheck ==
    /\ mpc = "check" /\ pc = "main"
    /\ UNCHANGED <<tableVars, imgVars, passVars, figVars, refVars, concVars>>
    /\ IF kw.input = ""
       THEN /\ mpc' = "returned"
            /\ mout' = [raised |-> FALSE, text |-> <<ErrTok, Txt("input_path empty")>>]
            /\ UNCHANGED <<pc, kw>>
       ELSE /\ mpc' = "call"
            /\ pc' = "start"
            /\ kw' = [kw EXCEPT !.ocr_backend = Lower(@)]
            /\ UNCHANGED mout
    /\ UNCHANGED <<input_type, temp_ebook_pdf, temp_image_file, fs, access_token, task_id,
                   elapsed, status, result, parse_data, md_content, response, hist>>

\* lines 682-696: execute has returned or raised
MainReturn ==
    /\ mpc = "call" /\ pc \in {"returned", "raised"}
    /\ UNCHANGED <<tableVars, imgVars, passVars, figVars, refVars, concVars>>
    /\ mout' = main_result(response)
    /\ mpc' = "returned"
    /\ UNCHANGED orchVars

(***************************************************************************)
(* Two invocations of execute running at the same time, reduced to the     *)
(* operations they make on files: the temporary PDF of                     *)
(* _convert_ebook_to_pdf, the temporary image of lines 603-606, the image  *)
(* assets of _inline_images_as_local, the output file and the removals of  *)
(* the finally clause.  A path is a tuple of strings: directory, stem and  *)
(* suffix, or directory, stem, "_images/", number and suffix.  mkstemp     *)
(* hands out a name nobody has been given before.                          *)
(***************************************************************************)
NoPath == <<>>

\* tempfile.mkstemp(suffix=...): the n-th name
TmpName(n, suffix) == <<"tmp/", ToString(n), suffix>>

\* Path.with_suffix
with_suffix(path, suffix) == <<path[1], path[2], suffix>>

\* line 482: output_path_obj
output_path_obj(output_path, file_path) ==
    IF output_path # NoPath THEN output_path ELSE with_suffix(file_path, ".md")

\* lines 449-451 and 460-462: images_path / fname for the k-th image
AssetPath(output_path, k) ==
    <<output_path[1], output_path[2], "_images/", ToString(k), ".png">>

\* lines 627-629: the output file, its suffix forced to .md
OutPath(output_path) == with_suffix(output_path, ".md")

ConcInputs ==
    {<<"d/", "x", ".pdf">>, <<"d/", "x", ".png">>, <<"d/", "x", ".mobi">>, <<"data:">>}
ConcOutputs == {NoPath, <<"d/", "x", ".md">>, <<"d/", "x", ".txt">>, <<"o/", "z", ".md">>}

Invocations == 1..2

ConcArgs == [input : ConcInputs, output : ConcOutputs, inline_images : BOOLEAN]

NewInvocation(args) ==
    [args |-> args, pc |-> "start", file_path |-> NoPath, temp_ebook_pdf |-> NoPath,
     temp_image_file |-> NoPath]

ConcIdle == cinv = <<>> /\ cops = {} /\ ctmp = 0

\* the two invocations were not given the same explicit output destination
ConcInit ==
    /\ cinv \in {c \in [Invocations -> {NewInvocation(a) : a \in ConcArgs}] :
                    c[1].args.output = NoPath \/ c[1].args.output # c[2].args.output}
    /\ cops = {}
    /\ ctmp = 0

Op(path, i, op) == <<path, i, op>>

\* execute, lines 568-577, with _convert_ebook_to_pdf, lines 85-103
CConvert(i) ==
    /\ cinv[i].pc = "start"
    /\ UNCHANGED <<orchVars, tableVars, imgVars, passVars, figVars, refVars, mainVars>>
    /\ IF cinv[i].args.input[Len(cinv[i].args.input)] = ".mobi"
       THEN \E outcome \in {"no calibre", "conversion failed", "ok"} :
               CASE outcome = "no calibre" ->
                       /\ cinv' = [cinv EXCEPT ![i].pc = "done"]
                       /\ UNCHANGED <<cops, ctmp>>
                 [] outcome = "conversion failed" ->
                       /\ cinv' = [cinv EXCEPT ![i].pc = "done"]
                       /\ ctmp' = ctmp + 1
                       /\ cops' = cops \cup {Op(TmpName(ctmp', ".pdf"), i, "create"),
                                             Op(TmpName(ctmp', ".pdf"), i, "remove")}
                 [] OTHER ->
                       /\ ctmp' = ctmp + 1
                       /\ cinv' = [cinv EXCEPT ![i].pc = "try",
                                               ![i].temp_ebook_pdf = TmpName(ctmp', ".pdf"),
                                               ![i].file_path = TmpName(ctmp', ".pdf")]
                       /\ cops' = cops \cup {Op(TmpName(ctmp', ".pdf"), i, "create")}
       ELSE /\ cinv' = [cinv EXCEPT ![i].pc = "try", ![i].file_path = cinv[i].args.input]
            /\ UNCHANGED <<cops, ctmp>>

\* execute, lines 590-606
CEnterTry(i) ==
    /\ cinv[i].pc = "try"
    /\ UNCHANGED <<orchVars, tableVars, imgVars, passVars, figVars, refVars, mainVars>>
    /\ IF cinv[i].args.input = <<"data:">>
       THEN /\ ctmp' = ctmp + 1
            /\ cinv' = [cinv EXCEPT ![i].pc = "remote",
                                    ![i].temp_image_file = TmpName(ctmp', ".png"),
                                    ![i].file_path = TmpName(ctmp', ".png")]
            /\ cops' = cops \cup {Op(TmpName(ctmp', ".png"), i, "create")}
       ELSE /\ cinv' = [cinv EXCEPT ![i].pc = "remote"]
            /\ UNCHANGED <<cops, ctmp>>

\* _execute_baidu_complex, lines 478-538: the orchestration fails, or gives
\* a body with n image references, saved by _inline_images_as_local
CImages(i) ==
    /\ cinv[i].pc = "remote"
    /\ UNCHANGED <<orchVars, tableVars, imgVars, passVars, figVars, refVars, mainVars>>
    /\ \E failed \in BOOLEAN, n \in 0..MaxImages :
          IF failed
          THEN cinv' = [cinv EXCEPT ![i].pc = "finally"] /\ UNCHANGED cops
          ELSE /\ cinv' = [cinv EXCEPT ![i].pc = "output"]
               /\ cops' = IF cinv[i].args.inline_images THEN cops
                          ELSE cops \cup
                               {Op(AssetPath(output_path_obj(cinv[i].args.output,
                                                             cinv[i].file_path), k), i, "write") :
                                   k \in 0..(n - 1)}
    /\ UNCHANGED ctmp

\* execute, lines 624-642
COutput(i) ==
    /\ cinv[i].pc = "output"
    /\ UNCHANGED <<orchVars, tableVars, imgVars, passVars, figVars, refVars, mainVars>>
    /\ cops' = IF cinv[i].args.output = NoPath THEN cops
               ELSE cops \cup {Op(OutPath(cinv[i].args.output), i, "write")}
    /\ cinv' = [cinv EXCEPT ![i].pc = "finally"]
    /\ UNCHANGED ctmp

\* execute, lines 644-654
CCleanup(i) ==
    /\ cinv[i].pc = "finally"
    /\ UNCHANGED <<orchVars, tableVars, imgVars, passVars, figVars, refVars, mainVars>>
    /\ cops' = cops \cup {Op(path, i, "remove") :
                             path \in {cinv[i].temp_ebook_pdf, cinv[i].temp_image_file} \ {NoPath}}
    /\ cinv' = [cinv EXCEPT ![i].pc = "done"]
    /\ UNCHANGED ctmp

OrchNext ==
    \/ Validate \/ ConvertEbook \/ CheckBackend \/ EnterTry
    \/ GetToken \/ Submit \/ Poll \/ LoopExit \/ AfterLoop \/ Download
    \/ NormTables \/ NormImages \/ NormFigures \/ NormLabels
    \/ Finish \/ Cleanup

(***************************************************************************)
(* The normalization passes on their own: _replace_tables_with_html        *)
(* applied to a body and a parse result, and lines 528-538 of              *)
(* _execute_baidu_complex applied to a body, a parse result and the        *)
(* collaborators of the resolver.                                          *)
(***************************************************************************)
\* lines 528-538: the passes run (log) and the body they leave
normalize_passes(md, pd, e) ==
    LET t == IF Truthy(pd) THEN replace_tables_with_html(md, pd) ELSE md
        im == IF HasImgSrc(t) THEN InlineImages(t, e)
              ELSE [kind |-> "ok", body |-> t, files |-> {}]
        f == IF HasFigure(im.body) THEN normalize_figure_to_markdown(im.body) ELSE im.body
        log1 == (IF Truthy(pd) THEN <<"tables">> ELSE <<>>)
                \o (IF HasImgSrc(t) THEN <<"images">> ELSE <<>>)
    IN  IF im.kind = "raised" THEN [kind |-> "raised", body |-> <<>>, log |-> log1]
        ELSE [kind |-> "ok", body |-> collapse_figure_labels(f),
              log |-> log1 \o (IF HasFigure(im.body) THEN <<"figures">> ELSE <<>>)
                          \o <<"labels">>]

PipeTok == Tok("pipe", <<"|x|">>)
TableDocs == SeqsUpTo({PipeTok, NL, WsTok, Txt("a")}, MaxTableBody)

\* parse results: no pages, pages without tables, pages listed out of order,
\* pages with the same page_num
TablePds ==
    {[kind |-> "dict", keys |-> {}, pages |-> <<>>],
     [kind |-> "dict", keys |-> {"pages"}, pages |-> <<Page(1, <<>>, <<>>)>>],
     [kind |-> "dict", keys |-> {"pages"},
      pages |-> <<Page(2, <<>>, <<"T3">>), Page(1, <<>>, <<"T1", "T2">>)>>],
     [kind |-> "dict", keys |-> {"pages"},
      pages |-> <<Page(1, <<>>, <<"T1">>), Page(1, <<>>, <<"T2">>)>>]}

PassDocTokens ==
    {Txt("a"), NL, WsTok, Tok("label", <<"l1">>), Tok("heading", <<"# h">>), PipeTok,
     ImgTag("u1"), ImgTagUpper("u2"), Tok("figure", <<"", "f.png", "cap">>),
     Tok("mdimg", <<"./", "g.png">>)}
PassDocs == SeqsUpTo(PassDocTokens, MaxPassBody)

PassPds == {NoParseData, [kind |-> "dict", keys |-> {"pages"},
                          pages |-> <<Page(1, <<>>, <<"T1", "T2">>)>>]}

\* what the collaborators of the resolver do: every fetch fails, or succeeds;
\* under the local-file policy the directory can be made, or not
PassEnvs ==
    {[inline_images |-> TRUE, fetch |-> [i \in 1..MaxPassBody |-> o],
      write |-> [i \in 1..MaxPassBody |-> TRUE], mkdir |-> TRUE] : o \in {"fail", "PNG"}}
    \cup {[inline_images |-> FALSE, fetch |-> [i \in 1..MaxPassBody |-> "PNG"],
           write |-> [i \in 1..MaxPassBody |-> TRUE], mkdir |-> m] : m \in BOOLEAN}

NoPassOut == [kind |-> "none", body |-> <<>>, log |-> <<>>]

PassIdle == pin = [body |-> <<>>, pd |-> NoParseData, env |-> NoEnv] /\ ppc = "off"
            /\ pout = NoPassOut

\* the bodies _collapse_figure_labels is applied to: an image line, two
\* labels, a heading, a sentence, blanks and newlines
LabelDocTokens ==
    {NL, WsTok, Tok("mdimg", <<"./", "g.png">>), Tok("label", <<"l1">>),
     Tok("label", <<"l2">>), Tok("heading", <<"# h">>), Txt("a")}
LabelDocs == SeqsUpTo(LabelDocTokens, MaxLabelBody)

\* the bodies _normalize_figure_to_markdown is applied to: wrappers of both
\* shapes, with a relative path, a "./" path, a data URI or a URL, with a
\* caption, a blank caption or none
FigDocTokens ==
    {Txt("a"), NL,
     Tok("figure", <<"", "f.png", "cap">>), Tok("figure", <<"./", "f.png", " cap ">>),
     Tok("figure", <<"data:", "x", "">>), Tok("figure", <<"http://", "f.png", " ">>),
     Tok("figure", <<"", "f.png", "cap", "img">>), Tok("figure", <<"./", "f.png", "", "IMG">>)}
FigDocs == SeqsUpTo(FigDocTokens, MaxFigBody)

PassInit ==
    /\ \/ ppc = "tables" /\ pin \in [body : TableDocs, pd : TablePds, env : {NoEnv}]
       \/ ppc = "passes" /\ pin \in [body : PassDocs, pd : PassPds, env : PassEnvs]
       \/ ppc = "labels" /\ pin \in [body : LabelDocs, pd : {NoParseData}, env : {NoEnv}]
       \/ /\ ppc \in {"figures", "figures (local)"}
          /\ pin \in [body : FigDocs, pd : {NoParseData}, env : {NoEnv}]
    /\ pout = NoPassOut

\* the call _replace_tables_with_html(md_content, parse_data)
ReplaceTables ==
    /\ ppc = "tables"
    /\ UNCHANGED <<orchVars, tableVars, imgVars, figVars, refVars, mainVars, concVars>>
    /\ pout' = [kind |-> "ok", body |-> replace_tables_with_html(pin.body, pin.pd),
                log |-> <<"tables">>]
    /\ ppc' = "done"
    /\ UNCHANGED pin

\* lines 528-538 of _execute_baidu_complex
Normalize ==
    /\ ppc = "passes"
    /\ UNCHANGED <<orchVars, tableVars, imgVars, figVars, refVars, mainVars, concVars>>
    /\ pout' = normalize_passes(pin.body, pin.pd, pin.env)
    /\ ppc' = "done"
    /\ UNCHANGED pin

\* the call _collapse_figure_labels(md_content), line 537
CollapseLabels ==
    /\ ppc = "labels"
    /\ UNCHANGED <<orchVars, tableVars, imgVars, figVars, refVars, mainVars, concVars>>
    /\ pout' = [kind |-> "ok", body |-> collapse_figure_labels(pin.body), log |-> <<"labels">>]
    /\ ppc' = "done"
    /\ UNCHANGED pin

\* the call _normalize_figure_to_markdown(md_content), line 536
NormalizeFigures ==
    /\ ppc = "figures"
    /\ UNCHANGED <<orchVars, tableVars, imgVars, figVars, refVars, mainVars, concVars>>
    /\ pout' = [kind |-> "ok", body |-> normalize_figure_to_markdown(pin.body),
                log |-> <<"figures">>]
    /\ ppc' = "done"
    /\ UNCHANGED pin

\* the same call in skills/ebook_to_md/ebook_to_md.py
NormalizeFiguresLocal ==
    /\ ppc = "figures (local)"
    /\ UNCHANGED <<orchVars, tableVars, imgVars, figVars, refVars, mainVars, concVars>>
    /\ pout' = [kind |-> local_normalize_figure_to_markdown(pin.body).kind,
                body |-> local_normalize_figure_to_markdown(pin.body).body,
                log |-> <<"figures (local)">>]
    /\ ppc' = "done"
    /\ UNCHANGED pin

(***************************************************************************)
(* _LocalPdfOcrImpl._extract_figures of skills/ebook_to_md/ebook_to_md.py. *)
(* The OCR data of a page is a list of boxes [text, left, top, width,      *)
(* height]; texts are tuples of characters, "F" standing for the caption   *)
(* marker.  The boxes come one OCR line at a time (a stretch of boxes with *)
(* the same line_num): fin is the list of the lines read so far, each with *)
(* the number of the page it is on.  fout is [figures, files]: the figure  *)
(* map and, for every file saved, the crop, the page it was cut from and   *)
(* the number of times it was written.                                     *)
(***************************************************************************)
FIG_HEIGHT_PT == 260
scale == 2

\* line 564
fig_height_px == FIG_HEIGHT_PT * scale

Marker == "F"
Digits == {"0", "1", "2", "3", "4", "5", "6", "7", "8", "9"}

\* (data["text"][i] or "").strip()
BoxText(box) == RStripChars(LStripChars(box.text))

\* str.isdigit()
isdigit(txt) == txt # <<>> /\ \A i \in 1..Len(txt) : txt[i] \in Digits

\* lines 580-586: the first box after i, on the same line, whose text is a
\* number (0 when there is none)
FirstDigitAfter(line, i) ==
    IF \E j \in (i + 1)..Len(line) : isdigit(BoxText(line[j]))
    THEN CHOOSE j \in (i + 1)..Len(line) :
             /\ isdigit(BoxText(line[j]))
             /\ \A k \in (i + 1)..(j - 1) : ~isdigit(BoxText(line[k]))
    ELSE 0

\* lines 598-602: the first box after i, on the same line, whose text is
\* fig_num (0 when there is none)
FirstEqualAfter(line, i, fig_num) ==
    IF \E j \in (i + 1)..Len(line) : BoxText(line[j]) = fig_num
    THEN CHOOSE j \in (i + 1)..Len(line) :
             /\ BoxText(line[j]) = fig_num
             /\ \A k \in (i + 1)..(j - 1) : BoxText(line[k]) # fig_num
    ELSE 0

\* the digits txt holds from position p on
RECURSIVE DigitRun(_, _)
DigitRun(txt, p) ==
    IF p <= Len(txt) /\ txt[p] \in Digits THEN <<txt[p]>> \o DigitRun(txt, p + 1) ELSE <<>>

RECURSIVE SkipBlanks(_, _)
SkipBlanks(txt, p) ==
    IF p <= Len(txt) /\ IsSpace(txt[p]) THEN SkipBlanks(txt, p + 1) ELSE p

\* line 588: re.search(r"图\s*(\d+)", txt), group 1 (<<>> when no match)
RECURSIVE CaptionSearch(_, _)
CaptionSearch(txt, p) ==
    IF p > Len(txt) THEN <<>>
    ELSE IF txt[p] = Marker /\ DigitRun(txt, SkipBlanks(txt, p + 1)) # <<>>
         THEN DigitRun(txt, SkipBlanks(txt, p + 1))
    ELSE CaptionSearch(txt, p + 1)

\* lines 577-590: fig_num for box i of the line (<<>> is None)
FigNum(line, i) ==
    LET txt == BoxText(line[i])
    IN  IF txt = <<Marker>>
        THEN LET j == FirstDigitAfter(line, i)
             IN  IF j = 0 THEN <<>> ELSE BoxText(line[j])
        ELSE IF txt # <<>> /\ txt[1] = Marker /\ Len(txt) > 1 THEN CaptionSearch(txt, 1)
        ELSE <<>>

\* lines 593-613: the caption box; the four assignments of lines 609-612 are
\* made one after the other
CaptionBox(line, i, fig_num) ==
    LET b == line[i]
        own == [left |-> b.left, top |-> b.top, width |-> b.width, height |-> b.height]
        j == IF BoxText(b) = <<Marker>>
             THEN FirstEqualAfter(line, i, fig_num) ELSE 0
    IN  IF j = 0 THEN own
        ELSE LET b2 == line[j]
                 left == Min(b.left, b2.left)
                 top == Min(b.top, b2.top)
                 width == Max(left + b.width, b2.left + b2.width) - left
                 height == Max(top + b.height, b2.top + b2.height) - top
             IN  [left |-> left, top |-> top, width |-> width, height |-> height]

\* line 616
CropRight(img, cb) == Min(img.width, cb.left + cb.width + 20)

\* lines 614-617: (crop_left, crop_top, crop_right, crop_bottom)
CropRegion(img, cb) ==
    [left |-> Max(0, cb.left - 20),
     top |-> Max(0, cb.top - fig_height_px),
     right |-> CropRight(img, cb),
     bottom |-> cb.top + cb.height + 10]

\* line 619: "fig{}.png".format(fig_num)
FigFile(fig_num) == <<"fig">> \o fig_num \o <<".png">>

\* line 623: "./" + rel, rel being the images directory and the file name
FigRel(fig_num) == <<"./", "stem_images/">> \o FigFile(fig_num)

\* a faulty variant of AlreadyCaptured: a caption number is captured again
NeverCaptured(figures, fig_num) == FALSE

\* line 591: fig_num in figures
AlreadyCaptured(figures, fig_num) == fig_num \in DOMAIN figures

\* lines 576-623: the iteration for box i of the line, on page img
FigStep(st, img, line, i) ==
    LET fig_num == FigNum(line, i)
    IN  IF fig_num = <<>> \/ AlreadyCaptured(st.figures, fig_num) THEN st
        ELSE LET fn == FigFile(fig_num)
                 crop == CropRegion(img, CaptionBox(line, i, fig_num))
                 n == IF fn \in DOMAIN st.files THEN st.files[fn].writes ELSE 0
             IN  [figures |-> [k \in DOMAIN st.figures \cup {fig_num} |->
                                   IF k = fig_num THEN FigRel(fig_num) ELSE st.figures[k]],
                  files |-> [f \in DOMAIN st.files \cup {fn} |->
                                IF f = fn THEN [crop |-> crop, page |-> img.page, writes |-> n + 1]
                                ELSE st.files[f]]]

\* the iterations for the boxes i.. of the line
RECURSIVE FigLoop(_, _, _, _)
FigLoop(st, img, line, i) ==
    IF i > Len(line) THEN st ELSE FigLoop(FigStep(st, img, line, i), img, line, i + 1)

\* the page image: pix.width x pix.height
PageImage(n) == [page |-> n, width |-> 60, height |-> 600]

\* the boxes tesseract can give: a marker, numbers, a caption in one piece, at
\* three places of the page
OcrTexts == {<<Marker>>, <<"1">>, <<"2", " ">>, <<Marker, "1">>}
OcrPlaces == {[left |-> 10, top |-> 585], [left |-> 40, top |-> 585], [left |-> 10, top |-> 100]}
OcrBoxes ==
    {[text |-> t, left |-> pl.left, top |-> pl.top, width |-> 10, height |-> 8] :
        t \in OcrTexts, pl \in OcrPlaces}
OcrLines == SeqsUpTo(OcrBoxes, MaxLineBoxes) \ {<<>>}

NoFigOut == [figures |-> <<>>, files |-> <<>>]

FigIdle == fin = <<>> /\ fpc = "off" /\ fout = NoFigOut

\* lines 560-568
FigInit == fin = <<>> /\ fpc = "pages" /\ fout = NoFigOut

CurrentPage == IF fin = <<>> THEN 0 ELSE fin[Len(fin)].page

\* lines 569-623 for the boxes of one OCR line, on the current page or on the
\* next one
FigLine ==
    /\ fpc = "pages"
    /\ UNCHANGED <<orchVars, tableVars, imgVars, passVars, refVars, mainVars, concVars>>
    /\ Len(fin) < MaxOcrLines
    /\ \E line \in OcrLines, page \in {CurrentPage, CurrentPage + 1} \cap (1..MaxPages) :
          /\ fin' = Append(fin, [page |-> page, boxes |-> line])
          /\ fout' = FigLoop(fout, PageImage(page), line, 1)
    /\ UNCHANGED fpc

\* lines 624-625
FigReturn ==
    /\ fpc = "pages"
    /\ UNCHANGED <<orchVars, tableVars, imgVars, passVars, refVars, mainVars, concVars>>
    /\ fpc' = "done"
    /\ UNCHANGED <<fin, fout>>

(***************************************************************************)
(* _LocalPdfOcrImpl._insert_figure_refs of skills/ebook_to_md/ebook_to_md.py. *)
(* The text is a tuple of characters ("F" standing for the caption marker, *)
(* "(" and ")" for the brackets of either width); the name of the images   *)
(* directory is one element of a path, taken not to hold the marker.  The  *)
(* figure map is the list of its items, in the order of the dict.          *)
(***************************************************************************)
\* lines 680-681: img_md
ImgMd(fig) ==
    <<"\n", "\n", "!", "[", Marker>> \o fig.num \o <<"]", "(">> \o fig.path \o <<")", "\n", "\n">>

\* s holds the characters of lit from position p on
LitAt(s, p, lit) == p + Len(lit) - 1 <= Len(s) /\ SubSeq(s, p, p + Len(lit) - 1) = lit

\* lines 676-679: the end of the match whose marker is at position p
\* (0 when the pattern does not match there): marker, \s*, the number, \s*,
\* an optional closing bracket
RefMatchEnd(s, p, num) ==
    IF p <= Len(s) /\ s[p] = Marker /\ LitAt(s, SkipBlanks(s, p + 1), num)
    THEN LET q == SkipBlanks(s, SkipBlanks(s, p + 1) + Len(num))
         IN  IF q <= Len(s) /\ s[q] = ")" THEN q + 1 ELSE q
    ELSE 0

\* line 686: the marker of the leftmost match (0 when there is none)
FirstMatch(s, num) ==
    IF \E p \in 1..Len(s) : RefMatchEnd(s, p, num) # 0
    THEN CHOOSE p \in 1..Len(s) :
             /\ RefMatchEnd(s, p, num) # 0
             /\ \A q \in 1..(p - 1) : RefMatchEnd(s, q, num) = 0
    ELSE 0

\* lines 683-686: pattern.sub(repl, markdown, count=1)
SubOnce(s, fig) ==
    LET p == FirstMatch(s, fig.num)
        e == RefMatchEnd(s, p, fig.num)
    IN  IF p = 0 THEN s
        ELSE SubSeq(s, 1, e - 1) \o ImgMd(fig) \o SubSeq(s, e, Len(s))

\* lines 675-686: the loop over figures.items(), from item i on
RECURSIVE RefLoop(_, _, _)
RefLoop(s, figures, i) ==
    IF i > Len(figures) THEN s ELSE RefLoop(SubOnce(s, figures[i]), figures, i + 1)

\* lines 672-687
insert_figure_refs(markdown, figures) ==
    IF figures = <<>> THEN markdown ELSE RefLoop(markdown, figures, 1)

\* an item of the map _extract_figures returns
Fig(num) == [num |-> num, path |-> FigRel(num)]

\* the figure maps: one or two figures, in either order
FigMaps ==
    {<<>>, <<Fig(<<"1">>)>>, <<Fig(<<"1", "2">>)>>,
     <<Fig(<<"1">>), Fig(<<"2">>)>>, <<Fig(<<"2">>), Fig(<<"1">>)>>,
     <<Fig(<<"1">>), Fig(<<"1", "2">>)>>, <<Fig(<<"1", "2">>), Fig(<<"1">>)>>}

RefChars == {Marker, "1", "2", "(", ")", " ", "x"}
RefTexts == SeqsUpTo(RefChars, MaxTextLen)

RefIdle == rin = <<>> /\ rpc = "off" /\ rout = <<>>

RefInit ==
    /\ rin \in [text : RefTexts, figures : FigMaps]
    /\ rpc = "call"
    /\ rout = <<>>

\* lines 672-687
InsertRefs ==
    /\ rpc = "call"
    /\ UNCHANGED <<orchVars, tableVars, imgVars, passVars, figVars, mainVars, concVars>>
    /\ rout' = insert_figure_refs(rin.text, rin.figures)
    /\ rpc' = "done"
    /\ UNCHANGED rin


(***************************************************************************)
(* Specifications.                                                         *)
(***************************************************************************)
Init == OrchInit /\ TableIdle /\ ImgIdle /\ PassIdle /\ FigIdle /\ RefIdle /\ MainIdle /\ ConcIdle
Next == OrchNext
Spec == Init /\ [][Next]_vars

TableSpecInit == TableInit /\ OrchIdle /\ ImgIdle /\ PassIdle /\ FigIdle /\ RefIdle /\ MainIdle /\ ConcIdle
TableNext == TableToHtml
TableSpec == TableSpecInit /\ [][TableNext]_vars

ImgSpecInit == ImgInit /\ OrchIdle /\ TableIdle /\ PassIdle /\ FigIdle /\ RefIdle /\ MainIdle /\ ConcIdle
ImgNext == ResolveImages
ImgSpec == ImgSpecInit /\ [][ImgNext]_vars

PassSpecInit == PassInit /\ OrchIdle /\ TableIdle /\ ImgIdle /\ FigIdle /\ RefIdle /\ MainIdle /\ ConcIdle
PassNext ==
    ReplaceTables \/ Normalize \/ CollapseLabels \/ NormalizeFigures \/ NormalizeFiguresLocal
PassSpec == PassSpecInit /\ [][PassNext]_vars

FigSpecInit == FigInit /\ OrchIdle /\ TableIdle /\ ImgIdle /\ PassIdle /\ RefIdle /\ MainIdle /\ ConcIdle
FigNext == FigLine \/ FigReturn
FigSpec == FigSpecInit /\ [][FigNext]_vars

RefSpecInit == RefInit /\ OrchIdle /\ TableIdle /\ ImgIdle /\ PassIdle /\ FigIdle /\ MainIdle /\ ConcIdle
RefNext == InsertRefs
RefSpec == RefSpecInit /\ [][RefNext]_vars

MainSpecInit == MainInit /\ TableIdle /\ ImgIdle /\ PassIdle /\ FigIdle /\ RefIdle /\ ConcIdle
MainNext == MainCheck \/ OrchNext \/ MainReturn
MainSpec == MainSpecInit /\ [][MainNext]_vars

ConcSpecInit ==
    ConcInit /\ OrchIdle /\ TableIdle /\ ImgIdle /\ PassIdle /\ FigIdle /\ RefIdle /\ MainIdle
ConcNext ==
    \E i \in Invocations : CConvert(i) \/ CEnterTry(i) \/ CImages(i) \/ COutput(i) \/ CCleanup(i)
ConcSpec == ConcSpecInit /\ [][ConcNext]_vars

(***************************************************************************)
(* Claims about the Table Reconstructor (TableSpec).                       *)
(***************************************************************************)
MatrixValues(mat) == {mat[r][c] : <<r, c>> \in {p \in (1..Len(mat)) \X (1..NumCols(mat)) :
                                                   p[2] <= Len(mat[p[1]])}}
PositionsOf(mat, v) == {p \in (1..Len(mat)) \X (1..NumCols(mat)) :
                           p[2] <= Len(mat[p[1]]) /\ mat[p[1]][p[2]] = v}
SetMin(S) == CHOOSE x \in S : \A y \in S : x <= y
SetMax(S) == CHOOSE x \in S : \A y \in S : x >= y
Top(P) == SetMin({p[1] : p \in P})
Bottom(P) == SetMax({p[1] : p \in P})
Left(P) == SetMin({p[2] : p \in P})
Right(P) == SetMax({p[2] : p \in P})

\* every cell index of the matrix fills one axis-aligned rectangle
IsRectangular(mat) ==
    \A v \in MatrixValues(mat) :
        LET P == PositionsOf(mat, v)
        IN  P = (Top(P)..Bottom(P)) \X (Left(P)..Right(P))

\* the <td>s of the returned table, as [row |-> the <tr> it is in, cell |-> it]
Emitted(h) == {[row |-> x[1], cell |-> h.rows[x[1]][x[2]]] :
                  x \in {y \in (1..Len(h.rows)) \X (1..MaxCols + 1) :
                            y[2] <= Len(h.rows[y[1]])}}

TableGiven == tpc = "done" /\ TableCells(table) # <<>> /\ NumCols(TableMatrix(table)) > 0

\* the attributes the claim expects on a cell of the given height and width
ExpectedAttrs(height, width) ==
    (IF height > 1 THEN <<<<"rowspan", height>>>> ELSE <<>>)
    \o (IF width > 1 THEN <<<<"colspan", width>>>> ELSE <<>>)

\* C7: for every matrix in which each cell index fills one axis-aligned
\* rectangle, the table returned holds exactly one <td> per region, in the <tr>
\* of the region's top row, at its left column, with rowspan the region's height
\* and colspan its width, a span attribute being written only when the span is
\* greater than 1, and no <td> for any other position (so a merge-free table
\* gives rows x columns cells without span attributes).
C7_RectangularMerges ==
    (TableGiven /\ IsRectangular(table.matrix)) =>
        /\ html.kind = "html"
        /\ Len(html.rows) = Len(table.matrix)
        /\ Cardinality(Emitted(html)) = Cardinality(MatrixValues(table.matrix))
        /\ \A v \in MatrixValues(table.matrix) :
              LET P == PositionsOf(table.matrix, v)
              IN  \E e \in Emitted(html) :
                     /\ e.cell.idx = v
                     /\ e.row = Top(P) /\ e.cell.r = Top(P) /\ e.cell.c = Left(P)
                     /\ e.cell.rowspan = Bottom(P) - Top(P) + 1
                     /\ e.cell.colspan = Right(P) - Left(P) + 1
                     /\ e.cell.attrs = ExpectedAttrs(e.cell.rowspan, e.cell.colspan)

\* C7 witness: matrix [[0,0],[1,2]] with three cells gave one cell with colspan 2
\* in row 1 and two cells without span attributes in row 2.
C7_Witness ==
    /\ tpc = "done"
    /\ table.matrix = << <<0, 0>>, <<1, 2>> >>
    /\ Len(table.cells) = 3
    /\ html.kind = "html"
    /\ Len(html.rows[1]) = 1 /\ html.rows[1][1].attrs = <<<<"colspan", 2>>>>
    /\ Len(html.rows[2]) = 2 /\ html.rows[2][1].attrs = <<>> /\ html.rows[2][2].attrs = <<>>

\* C8: for every matrix whose indices all reference a cell, also one where a
\* repeated index fills an L-shaped or staircase area, every cell index that
\* appears in the matrix is rendered in at least one emitted <td>.
C8_NoIndexDropped ==
    (/\ TableGiven
     /\ \A v \in MatrixValues(table.matrix) : v < Len(table.cells)
     /\ html.kind = "html") =>
        \A v \in MatrixValues(table.matrix) : \E e \in Emitted(html) : e.cell.idx = v

\* C9: for every matrix, ragged ones and ones with empty rows included, and every
\* cell list, the call reads no matrix position outside the row it is in and no
\* cell outside the cell list, and it completes without failure.
C9_NoReadOutOfBounds ==
    tpc = "done" =>
        /\ html.kind # "IndexError"
        /\ TableGiven =>
              /\ \A p \in MatrixReads(table.matrix, table.cells) :
                    InMatrix(table.matrix, p[1], p[2])
              /\ \A i \in CellReads(table.matrix, table.cells) : i < Len(table.cells)

\* C9 witness: a ragged matrix with an empty row and an index beyond the cell
\* list was converted to a table.
C9_Witness ==
    /\ tpc = "done"
    /\ table.matrix = << <<0, 2, 2>>, <<>> >>
    /\ Len(table.cells) = 2
    /\ html.kind = "html"
    /\ Len(html.rows[1]) = 2 /\ html.rows[2] = <<>>

\* the input is empty: no cells, or no matrix, or a matrix of empty rows only
EmptyTableInput ==
    \/ "cells" \notin table.has \/ table.cells = <<>>
    \/ "matrix" \notin table.has
    \/ \A r \in 1..Len(table.matrix) : table.matrix[r] = <<>>

\* C10: when the cell list is empty or missing, or the matrix is missing, has no
\* rows or has only empty rows, the call returns the table's raw markdown (the
\* empty string when the table has none) and does not fail.
C10_EmptyInputFallback ==
    (tpc = "done" /\ EmptyTableInput) =>
        /\ html.kind = "markdown"
        /\ html.text = IF "markdown" \in table.has THEN table.markdown ELSE ""

\* C10 witness: a table with cells and only empty rows gave its markdown back.
C10_Witness ==
    /\ tpc = "done"
    /\ Len(table.cells) = 2 /\ table.matrix = << <<>>, <<>> >>
    /\ "markdown" \in table.has
    /\ html.kind = "markdown" /\ html.text = table.markdown

\* the rows of the matrix do not all have the same length
IsRagged(mat) == \E r1, r2 \in 1..Len(mat) : Len(mat[r1]) # Len(mat[r2])

\* C11: when the matrix is ragged, the call returns the table's raw markdown
\* and not an HTML table.
C11_RaggedFallback ==
    (tpc = "done" /\ IsRagged(table.matrix)) =>
        /\ html.kind = "markdown"
        /\ html.text = IF "markdown" \in table.has THEN table.markdown ELSE ""

\* C11 as amended: a ragged matrix is rendered.  When the matrix is ragged the
\* call returns the raw markdown only if the cell list is empty or missing;
\* otherwise it returns an HTML table with one <tr> per matrix row, every <td>
\* of a row lying, with its colspan, within that row's own length.
C11_RaggedRendered ==
    (tpc = "done" /\ IsRagged(table.matrix)) =>
        IF table.cells = <<>>
        THEN /\ html.kind = "markdown"
             /\ html.text = IF "markdown" \in table.has THEN table.markdown ELSE ""
        ELSE /\ html.kind = "html"
             /\ Len(html.rows) = Len(table.matrix)
             /\ \A e \in Emitted(html) :
                   /\ e.cell.r = e.row
                   /\ e.cell.c + e.cell.colspan - 1 <= Len(table.matrix[e.row])

\* C11 witness: the ragged matrix [[0,1],[2]] with three cells gave an HTML
\* table of two cells in row 1 and one cell in row 2.
C11_Witness ==
    /\ tpc = "done"
    /\ table.matrix = << <<0, 1>>, <<2>> >>
    /\ Len(table.cells) = 3
    /\ html.kind = "html"
    /\ Len(html.rows[1]) = 2 /\ Len(html.rows[2]) = 1

(***************************************************************************)
(* Claims about the Remote Task Orchestrator and execute (Spec).           *)
(***************************************************************************)
Returning == pc \in {"finally", "returned", "raised"}

\* C1: once a status query has returned "failed" (after a submission that gave a
\* task id), the conversion is on its way out with a failure: the value
\* _execute_baidu_complex returns starts with the error marker, execute's
\* result is that failure and never a success payload, nothing was downloaded
\* and no normalization pass ran, a next step exists until execute has
\* returned; for every failure message, an empty or missing one included.
C1_FailedNeverSucceeds ==
    status = "failed" =>
        /\ task_id \in TaskIds
        /\ pc \in {"check", "finally", "returned"}
        /\ StartsWithErr(md_content)
        /\ hist.downloads = 0 /\ hist.passes = <<>>
        /\ Returning => response = Fail(md_content)
        /\ pc # "returned" => ENABLED OrchNext

\* C1 witness: execute returned a failure after a "failed" status whose
\* task_error was the empty string.
C1_Witness ==
    /\ pc = "returned" /\ status = "failed" /\ result.task_error = ""
    /\ ~response.success /\ StartsWithErr(response.error)

MaxPolls == max_wait \div poll_interval

\* C2: the loop makes at most max_wait / poll_interval = 24 status queries; when
\* every query returned a non-terminal status without error, the loop was left
\* after 24 queries, the value returned is the timeout failure and no exception
\* leaves execute.
C2_BoundedPolling ==
    /\ hist.queries <= MaxPolls
    /\ MaxPolls = 24
    /\ (hist.seen = {"non-terminal"} /\ pc # "poll") =>
          /\ hist.queries = MaxPolls
          /\ pc \in {"after loop", "check", "finally", "returned"}
          /\ pc # "after loop" => md_content = TimeoutStr
          /\ Returning => response = Fail(TimeoutStr)

\* C2 witness: execute returned the timeout failure after 24 queries that were
\* all non-terminal.
C2_Witness ==
    /\ pc = "returned" /\ hist.queries = 24 /\ hist.seen = {"non-terminal"}
    /\ response = Fail(TimeoutStr)

TokenFailed == hist.token_reqs > 0 /\ access_token = "None"
SubmitFailed == hist.submits > 0 /\ hist.submitted \notin TaskIds

\* C3: when the token request or the submission failed (HTTP error, backend
\* error code, response without task id), no status query is ever made, the
\* polling loop is never entered, and the failure is what execute returns.
C3_NoPollAfterFailedSubmission ==
    (TokenFailed \/ SubmitFailed) =>
        /\ hist.queries = 0 /\ hist.polled = {}
        /\ pc \in {"check", "finally", "returned"}
        /\ StartsWithErr(md_content)
        /\ hist.downloads = 0
        /\ Returning => response = Fail(md_content)

\* C3 witness: a submission answered without task id ended in a failure with no
\* query made.
C3_Witness ==
    /\ pc = "returned" /\ hist.submitted = "no task_id" /\ hist.queries = 0
    /\ ~response.success

\* C4: within one conversion the job is submitted at most once, and every
\* status query is for the task that submission returned.
C4_SubmitOnce ==
    /\ hist.submits <= 1
    /\ Cardinality(hist.polled) <= 1
    /\ hist.polled \subseteq {task_id}

\* C4 witness: a conversion that timed out made its 24 queries for one task
\* after one submission.
C4_Witness ==
    /\ pc = "returned" /\ response.error = TimeoutStr
    /\ hist.submits = 1 /\ hist.queries = 24 /\ hist.polled = {task_id}

\* C5: whenever execute has returned or raised, every temporary file it created
\* (the PDF rendered from a mobi/epub, the decoded image) has been removed.
C5_TempFilesRemoved ==
    pc \in {"returned", "raised"} => fs \cap {TmpPdf, TmpPng} = {}

(***************************************************************************)
(* Claims about the Image Reference Resolver (ImgSpec).                    *)
(***************************************************************************)
RefPositions(md) == {i \in 1..Len(md) : MatchesImgSrc(md[i])}
\* the ordinal of the reference at position i among the references of md
Ordinal(md, i) == Cardinality({j \in RefPositions(md) : j <= i})
FetchFailed(md, e, i) == i \in RefPositions(md) /\ e.fetch[Ordinal(md, i)] = "fail"
\* where the text for position i of md starts in the output, when every failed
\* reference before it took one more token
OutPos(md, e, i) == i + Cardinality({j \in 1..(i - 1) : FetchFailed(md, e, j)})

\* the only faults are fetch faults: the directory and the files can be written
NoDiskFault ==
    env.inline_images
    \/ (env.mkdir /\ \A n \in 1..Cardinality(RefPositions(doc)) : env.write[n])

Slots(pd) == {x \in (1..Len(pd.pages)) \X (1..2) : x[2] <= Len(pd.pages[x[1]].tables)}

\* ascending page number, listed order within a page number
SlotBefore(pd, a, b) ==
    \/ pd.pages[a[1]].page_num < pd.pages[b[1]].page_num
    \/ /\ pd.pages[a[1]].page_num = pd.pages[b[1]].page_num
       /\ (a[1] < b[1] \/ (a[1] = b[1] /\ a[2] < b[2]))

\* the tables in the order the claim gives
ExpectedTables(pd) ==
    [k \in 1..Cardinality(Slots(pd)) |->
        LET a == CHOOSE x \in Slots(pd) :
                     Cardinality({y \in Slots(pd) : SlotBefore(pd, y, x)}) = k - 1
        IN  pd.pages[a[1]].tables[a[2]]]

\* a pipe-delimited line: without its blanks it starts and ends with a pipe
PipeLine(line) ==
    LET s == Strip(line) IN s # <<>> /\ s[1].k = "pipe" /\ s[Len(s)].k = "pipe"

\* the last line of the run of pipe-delimited lines that holds line i
RECURSIVE RunEnd(_, _)
RunEnd(lines, i) ==
    IF i < Len(lines) /\ PipeLine(lines[i + 1]) THEN RunEnd(lines, i + 1) ELSE i

\* the lines the claim expects: the k-th run replaced by the k-th table, the
\* runs after the last table left as they are
RECURSIVE ExpectedLines(_, _, _, _)
ExpectedLines(lines, i, tables, idx) ==
    IF i > Len(lines) THEN <<>>
    ELSE IF PipeLine(lines[i])
         THEN LET j == RunEnd(lines, i)
              IN  IF idx < Len(tables)
                  THEN << <<Tok("htmltable", <<tables[idx + 1]>>)>> >>
                       \o ExpectedLines(lines, j + 1, tables, idx + 1)
                  ELSE SubSeq(lines, i, j) \o ExpectedLines(lines, j + 1, tables, idx)
    ELSE <<lines[i]>> \o ExpectedLines(lines, i + 1, tables, idx)

NonWs(md) == SelectSeq(md, LAMBDA t : ~IsWs(t))

TablesReplaced == ppc = "done" /\ pout.log = <<"tables">>

\* C12: tables are taken in ascending page-number order (listed order within a
\* page); the k-th contiguous run of pipe-delimited lines of the body is
\* replaced by the HTML of the k-th table, each table is used at most once,
\* runs after the last table and everything else are left as they were
\* (blank space aside), and without tables the body is unchanged.
C12_TableSubstitutionOrder ==
    TablesReplaced =>
        LET tables == ExpectedTables(pin.pd)
        IN  /\ NonWs(pout.body)
                 = NonWs(JoinLines(ExpectedLines(SplitLines(pin.body), 1, tables, 0)))
            /\ tables = <<>> => pout.body = pin.body

Normalized == ppc = "done" /\ pout.log # <<"tables">>

\* the body holds no table row, no figure markup and no image reference
PlainBody(md) ==
    \A i \in 1..Len(md) : md[i].k \notin {"pipe", "figure", "img", "IMG", "mdimg"}

\* C13: for every body without table, figure markup and image reference,
\* whatever the parse result holds, the passes of lines 528-538 complete and
\* return a body equal to the input, blank lines and blanks included.
C13_PlainBodyRoundTrip ==
    (Normalized /\ PlainBody(pin.body)) =>
        /\ pout.kind = "ok"
        /\ pout.body = pin.body

\* C13 witness: a body of a label, a blank line and a sentence went through
\* table substitution (the parse result holding tables) and label collapsing
\* and came back unchanged.
C13_Witness ==
    /\ Normalized
    /\ pin.body = <<Tok("label", <<"l1">>), NL, NL, Txt("a")>>
    /\ pout.log = <<"tables", "labels">>
    /\ pout.body = pin.body

\* C16: after the passes have run to their end, every image reference the
\* resolver's pattern recognises (an img tag with a src, in either letter
\* case) has been replaced or is followed by a failure annotation; none is
\* passed through untouched.
C16_EveryReferenceResolved ==
    (Normalized /\ pout.kind = "ok") =>
        \A j \in 1..Len(pout.body) :
            MatchesImgSrc(pout.body[j]) =>
                j < Len(pout.body) /\ pout.body[j + 1] = FailNote

(***************************************************************************)
(* Claims about the order of the passes (Spec).                            *)
(***************************************************************************)
\* the passes that ran did so in the order given
RanInOrder(order) ==
    \A i, j \in 1..Len(hist.passes) :
        i < j => \E a, b \in 1..Len(order) :
                    a < b /\ order[a] = hist.passes[i] /\ order[b] = hist.passes[j]

PassRan(pass) == \E i \in 1..Len(hist.passes) : hist.passes[i] = pass

\* C14: in every run in which both happen, table substitution has completed
\* before figure normalization starts: "tables" stands before "figures" in
\* the passes that ran, and once figure normalization has run, table
\* substitution is no longer to come.
C14_TablesBeforeFigures ==
    /\ \A i, j \in 1..Len(hist.passes) :
          (hist.passes[i] = "tables" /\ hist.passes[j] = "figures") => i < j
    /\ PassRan("figures") => pc # "tables"
    /\ pc = "figures" => (Truthy(parse_data) <=> PassRan("tables"))

\* C14 witness: table substitution, then figure normalization, ran on a body
\* with a table row and a figure wrapper.
C14_Witness ==
    /\ pc = "returned" /\ response.success
    /\ hist.passes = <<"tables", "figures", "labels">>

\* C15: the passes run in the order table substitution, figure normalization,
\* label collapsing, Image Reference Resolver.
C15_ResolverLast == RanInOrder(<<"tables", "figures", "labels", "images">>)

\* C15 as amended: the passes run in the order table substitution, Image
\* Reference Resolver, figure normalization, label collapsing; the resolver
\* runs before figure normalization and label collapsing, and label
\* collapsing, which always runs, is the last pass.
C15_ResolverSecond ==
    /\ RanInOrder(<<"tables", "images", "figures", "labels">>)
    /\ (pc \in {"check", "returned"} /\ hist.passes # <<>>) =>
          hist.passes[Len(hist.passes)] = "labels"

\* C15 witness: all four passes ran, the resolver second.
C15_Witness ==
    /\ pc = "returned" /\ response.success
    /\ hist.passes = <<"tables", "images", "figures", "labels">>

(***************************************************************************)
(* Claims about figure extraction (FigSpec).                               *)
(***************************************************************************)
\* the caption boxes read so far, in reading order: <<line, box, number>>
Occurrences ==
    {<<l, i>> : l \in 1..Len(fin), i \in 1..MaxLineBoxes} \cap
        {o \in (1..Len(fin)) \X (1..MaxLineBoxes) :
            /\ o[2] <= Len(fin[o[1]].boxes)
            /\ FigNum(fin[o[1]].boxes, o[2]) # <<>>}

NumberAt(o) == FigNum(fin[o[1]].boxes, o[2])

Earlier(o1, o2) == o1[1] < o2[1] \/ (o1[1] = o2[1] /\ o1[2] < o2[2])

FirstOccurrence(k) ==
    CHOOSE o \in Occurrences :
        /\ NumberAt(o) = k
        /\ \A o2 \in Occurrences : NumberAt(o2) = k => ~Earlier(o2, o)

\* C17: the figure map holds exactly one entry per distinct caption number
\* found so far, keyed by the numeric text, and the file of an entry is the
\* one written for the first occurrence of that number: it was written once,
\* from the page and the caption box of the first occurrence, however often
\* the number occurs again.
C17_FirstOccurrenceKept ==
    /\ DOMAIN fout.figures = {NumberAt(o) : o \in Occurrences}
    /\ DOMAIN fout.files = {FigFile(k) : k \in DOMAIN fout.figures}
    /\ \A k \in DOMAIN fout.figures :
          LET o == FirstOccurrence(k)
              ln == fin[o[1]]
          IN  /\ fout.figures[k] = FigRel(k)
              /\ fout.files[FigFile(k)] =
                    [crop |-> CropRegion(PageImage(ln.page), CaptionBox(ln.boxes, o[2], k)),
                     page |-> ln.page, writes |-> 1]

\* a marker followed by a number on one line gave the key, and the same
\* number occurs again on a later page, at another place
C17_Witness ==
    /\ fpc = "done"
    /\ \E o1, o2 \in Occurrences :
          /\ Earlier(o1, o2)
          /\ NumberAt(o1) = NumberAt(o2)
          /\ BoxText(fin[o1[1]].boxes[o1[2]]) = <<Marker>>
          /\ fin[o1[1]].page < fin[o2[1]].page
          /\ fin[o1[1]].boxes[o1[2]].top # fin[o2[1]].boxes[o2[2]].top

\* C18: the four coordinates of every crop region lie within the page image:
\* 0 <= left <= right <= width and 0 <= top <= bottom <= height.
C18_CropWithinImage ==
    \A f \in DOMAIN fout.files :
        LET c == fout.files[f].crop
            img == PageImage(fout.files[f].page)
        IN  /\ 0 <= c.left /\ c.left <= c.right /\ c.right <= img.width
            /\ 0 <= c.top /\ c.top <= c.bottom /\ c.bottom <= img.height

(***************************************************************************)
(* Claims about figure reference insertion (RefSpec).                      *)
(***************************************************************************)
\* the text refers to figure num at position p: the marker, blanks, the
\* number, and no further digit
RefersAt(s, p, num) ==
    /\ RefMatchEnd(s, p, num) # 0
    /\ LET e == SkipBlanks(s, p + 1) + Len(num)
       IN  ~(e <= Len(s) /\ s[e] \in Digits)

Referred(s, num) == \E p \in 1..Len(s) : RefersAt(s, p, num)

\* the end of the first reference to figure num
FirstRefEnd(s, num) ==
    RefMatchEnd(s, CHOOSE p \in 1..Len(s) :
                       /\ RefersAt(s, p, num)
                       /\ \A q \in 1..(p - 1) : ~RefersAt(s, q, num), num)

\* the image references due before position e of the text
RECURSIVE DueAt(_, _, _, _)
DueAt(s, figures, e, i) ==
    IF i > Len(figures) THEN <<>>
    ELSE (IF Referred(s, figures[i].num) /\ FirstRefEnd(s, figures[i].num) = e
          THEN ImgMd(figures[i]) ELSE <<>>) \o DueAt(s, figures, e, i + 1)

\* the text with one image reference after the first reference to every
\* figure of the map it refers to
RECURSIVE WithRefs(_, _, _)
WithRefs(s, figures, e) ==
    IF e > Len(s) + 1 THEN <<>>
    ELSE DueAt(s, figures, e, 1) \o (IF e <= Len(s) THEN <<s[e]>> ELSE <<>>)
             \o WithRefs(s, figures, e + 1)

\* C19: the result is the text with, for each figure of the map, exactly
\* one image reference when the text refers to that figure and none
\* otherwise, placed right after the first reference to it, however often
\* the figure is referred to; the original text is kept, in order.
C19_OneReferencePerFigure ==
    rpc = "done" => rout = WithRefs(rin.text, rin.figures, 1)

(***************************************************************************)
(* Claims about main (MainSpec).                                           *)
(***************************************************************************)
IsSuccessMsg(text) == Len(text) > 0 /\ text[1] = Txt("converted")

\* C20: whatever the collaborators do, main returns a success message or a
\* string beginning with the error marker, and raises nothing; it returns
\* the success message exactly when execute answered success.
C20_StructuredFailure ==
    mpc = "returned" =>
        /\ ~mout.raised
        /\ IsSuccessMsg(mout.text) \/ StartsWithErr(mout.text)
        /\ IsSuccessMsg(mout.text) <=> (response.success /\ ~response.exc)

\* execute raised after the conversion had succeeded (the output file could
\* not be written) and main returned
C20_Witness ==
    /\ mpc = "returned" /\ pc = "raised"
    /\ response.exc
    /\ hist.downloads > 0
    /\ StartsWithErr(mout.text)

(***************************************************************************)
(* Claims about the outcome of execute (Spec).                             *)
(***************************************************************************)
\* the remote task succeeded and the downloads were tried
BackendSucceeded == Returning /\ status = "success"

BlankBody(md) == md = NoneStr \/ Strip(md) = <<>>

BlankPages(pd) == \A i \in 1..Len(pd.pages) : Strip(pd.pages[i].text) = <<>>

\* C21: every success payload carries a body that is not empty and not
\* whitespace only; when the backend succeeded but the markdown and the page
\* texts are empty or whitespace only, the result is a failure and no output
\* file is written.
C21_NoContentRecognized ==
    /\ (Returning /\ response.success) =>
          \E i \in 1..Len(response.markdown) : ~IsWs(response.markdown[i])
    /\ (BackendSucceeded /\ BlankBody(hist.body) /\ BlankPages(parse_data)) =>
          /\ ~response.success /\ ~response.exc
          /\ OutFile(kw.output_path) \notin fs

\* the backend succeeded, the body is whitespace, the pages hold whitespace,
\* an output path was given: the failure says that no text was recognized
C21_Witness ==
    /\ pc = "returned" /\ status = "success"
    /\ hist.body = <<WsTok>> /\ Truthy(parse_data) /\ Len(parse_data.pages) > 0
    /\ BlankPages(parse_data)
    /\ kw.output_path # "None"
    /\ response = Fail(<<Txt("no text recognized")>>)

\* the input is of a supported type and, when it is a path, the file exists
SupportedInput ==
    /\ kw.input # "" /\ detect_input_type(kw.input) # ""
    /\ IsPath(kw.input) => kw.exists

\* C22: for every existing input of a supported type, a backend other than
\* baidu makes execute return the failure "only Baidu OCR is supported", and
\* no token request, job submission or status query is made.
C22_BackendSelector ==
    (pc = "returned" /\ SupportedInput /\ kw.ocr_backend # "baidu") =>
        /\ response = Fail(<<Txt("only baidu")>>)
        /\ hist.token_reqs = 0 /\ hist.submits = 0 /\ hist.queries = 0

\* C23: on success the output file is written, and output_path is in the
\* result, exactly when the caller gave an output path; the file, its suffix
\* forced to .md, then holds exactly the Markdown of the result, and without
\* an output path the Markdown is only returned.
C23_OutputDestination ==
    (Returning /\ response.success) =>
        /\ (kw.output_path # "None") <=> (OutFile(kw.output_path) \in fs)
        /\ (kw.output_path # "None") <=> (response.output_path # NoFile)
        /\ kw.output_path # "None" =>
              /\ response.output_path = OutFile(kw.output_path)
              /\ hist.written = response.markdown
        /\ kw.output_path = "None" => hist.written = NoneStr

\* a conversion that went through the passes and wrote its output file
C23_Witness ==
    /\ pc = "returned" /\ response.success
    /\ kw.output_path = "out.txt"
    /\ response.output_path = <<"out", ".md">>
    /\ Len(hist.passes) = 4
    /\ hist.written # NoneStr

(***************************************************************************)
(* Claims about concurrent conversions (ConcSpec).                         *)
(***************************************************************************)
\* the files an invocation makes besides its output file: the temporary
\* files and the image assets
IsOwnFile(path) == path[1] = "tmp/" \/ (Len(path) = 5 /\ path[3] = "_images/")

\* C24: every temporary file and image asset one invocation creates is at a
\* path the other invocation never writes, overwrites or removes.
C24_NoSharedPaths ==
    \A o1, o2 \in cops :
        (IsOwnFile(o1[1]) /\ o1[3] \in {"create", "write"} /\ o1[1] = o2[1]) => o1[2] = o2[2]

(***************************************************************************)
(* Claims about figure-label collapsing (PassSpec).                        *)
(***************************************************************************)
LabelsCall == ppc = "done" /\ pout.log = <<"labels">>

IsBlank(line) == Strip(line) = <<>>

NonBlank(lines) == SelectSeq(lines, LAMBDA l : ~IsBlank(l))

\* a line that counts as a label: at most 28 characters, no sentence end,
\* no markup at its start, not an image line
LabelLike(line) ==
    /\ ~IsBlank(line) /\ ~FigImgLine(line)
    /\ ~StartsMarkup(Strip(line)) /\ ~HasSentenceEnd(Strip(line))
    /\ StrLen(Strip(line)) <= FIG_LABEL_MAX_LEN

\* the whitespace-separated parts of a line
RECURSIVE PartsOf(_, _)
PartsOf(line, part) ==
    IF line = <<>> THEN (IF part = <<>> THEN <<>> ELSE <<part>>)
    ELSE IF IsWs(Head(line))
         THEN (IF part = <<>> THEN <<>> ELSE <<part>>) \o PartsOf(Tail(line), <<>>)
    ELSE PartsOf(Tail(line), part \o Head(line).v)

\* the parts of the lines of a run, in order
RECURSIVE RunParts(_)
RunParts(run) == IF run = <<>> THEN <<>> ELSE PartsOf(Head(run), <<>>) \o RunParts(Tail(run))

\* the parts written one after the other, ";" between them
RECURSIVE Listed(_)
Listed(parts) ==
    IF parts = <<>> THEN <<>>
    ELSE IF Len(parts) = 1 THEN parts[1]
    ELSE parts[1] \o <<";">> \o Listed(Tail(parts))

\* the length of the longest run of label-like lines lines starts with
RECURSIVE RunLen(_)
RunLen(lines) ==
    IF lines # <<>> /\ LabelLike(Head(lines)) THEN 1 + RunLen(Tail(lines)) ELSE 0

\* the non-blank lines expected: after every image line the run of
\* label-like lines is replaced by one line listing their parts
RECURSIVE Collapsed(_)
Collapsed(lines) ==
    IF lines = <<>> THEN <<>>
    ELSE IF FigImgLine(Head(lines))
         THEN LET n == RunLen(Tail(lines))
              IN  <<Head(lines)>>
                  \o (IF n > 0
                      THEN << <<Tok("labels", Listed(RunParts(SubSeq(lines, 2, n + 1))))>> >>
                      ELSE <<>>)
                  \o Collapsed(SubSeq(lines, n + 2, Len(lines)))
    ELSE <<Head(lines)>> \o Collapsed(Tail(lines))

\* C25: after each image line the maximal run of following non-blank
\* label-like lines is replaced by exactly one labels line listing their
\* whitespace-separated parts in order; every other non-blank line is kept,
\* in order; the scan ends for every body.
C25_LabelsCollapsed ==
    LabelsCall =>
        NonBlank(SplitLines(pout.body)) = Collapsed(NonBlank(SplitLines(pin.body)))

\* an image line followed by two label lines, one of them with two parts
C25_Witness ==
    /\ LabelsCall
    /\ pin.body = <<Tok("mdimg", <<"./", "g.png">>), NL, Tok("label", <<"l1">>), WsTok,
                    Tok("label", <<"l2">>), NL>>
           \/ pin.body = <<Tok("mdimg", <<"./", "g.png">>), NL, Tok("label", <<"l2">>), NL, NL,
                           Tok("label", <<"l1">>)>>
    /\ \E i \in 1..Len(pout.body) : pout.body[i].k = "labels" /\ Len(pout.body[i].v) = 3

\* C26: when no label-like line follows any image line, the body comes back
\* unchanged, blank lines included.
C26_NoLabelsNoChange ==
    (LabelsCall /\ Collapsed(NonBlank(SplitLines(pin.body))) = NonBlank(SplitLines(pin.body)))
        => pout.body = pin.body

(***************************************************************************)
(* Claims about figure normalization (PassSpec).                           *)
(***************************************************************************)
FiguresCall == ppc = "done" /\ pout.log \in {<<"figures">>, <<"figures (local)">>}

\* the image a wrapper shows, written as a path that names the same source:
\* a relative path may get "./" in front, nothing else changes
SameSource(tok) ==
    IF tok.v[1] = "" THEN <<"./", tok.v[1], tok.v[2]>> ELSE <<tok.v[1], tok.v[2]>>

\* the plain image reference and the caption line expected for a wrapper
PlainFigure(tok) ==
    <<Tok("mdimg", SameSource(tok))>>
        \o (IF CapStrip(tok.v[3]) # "" THEN <<NL, NL, Tok("caption", <<CapStrip(tok.v[3])>>)>>
            ELSE <<>>)

\* C27: every figure wrapper, with an image reference or with an img tag, is
\* rewritten to a plain image reference to the same source followed by an
\* italic caption line (none for an empty caption), in both implementations
\* and without failure.
C27_FigureNormalized ==
    FiguresCall =>
        /\ pout.kind = "ok"
        /\ pout.body = Flatten([i \in 1..Len(pin.body) |->
                                   IF pin.body[i].k = "figure" THEN PlainFigure(pin.body[i])
                                   ELSE <<pin.body[i]>>])

(***************************************************************************)
(* Claims about the caption box (FigSpec).                                 *)
(***************************************************************************)
\* the smallest rectangle that contains the boxes b and b2
SmallestRect(b, b2) ==
    LET left == Min(b.left, b2.left)
        top == Min(b.top, b2.top)
        right == Max(b.left + b.width, b2.left + b2.width)
        bottom == Max(b.top + b.height, b2.top + b2.height)
    IN  [left |-> left, top |-> top, width |-> right - left, height |-> bottom - top]

\* C28: for a lone marker followed on its line by its number, the caption
\* box is the smallest rectangle containing both boxes, wherever the number
\* lies (right of, left of, above or below the marker); the figure is cut
\* out from that box.
C28_CaptionBoxUnion ==
    \A k \in DOMAIN fout.figures :
        LET o == FirstOccurrence(k)
            ln == fin[o[1]]
            b == ln.boxes[o[2]]
            j == FirstEqualAfter(ln.boxes, o[2], k)
        IN  (BoxText(b) = <<Marker>> /\ j # 0) =>
               /\ CaptionBox(ln.boxes, o[2], k) = SmallestRect(b, ln.boxes[j])
               /\ fout.files[FigFile(k)].crop =
                     CropRegion(PageImage(ln.page), SmallestRect(b, ln.boxes[j]))

(***************************************************************************)
(* Claims about the text of the document (Spec).                           *)
(***************************************************************************)
\* C29: when the remote task succeeded and the downloaded body is not
\* empty, execute returns a success whose Markdown is that body after the
\* passes, whatever the document starts with; it fails only when a step of
\* the conversion failed (here: an exception was raised).
C29_OutcomeIndependentOfText ==
    (pc = "returned" /\ status = "success" /\ ~BlankBody(hist.body) /\ ~response.exc) =>
        /\ response.success
        /\ response.markdown = Strip(md_content)

(***************************************************************************)
(* Claims about the place of the inserted references (RefSpec).            *)
(***************************************************************************)
\* the positions of the result at which the image reference of fig stands
InsertedAt(fig) == {q \in 1..Len(rout) : LitAt(rout, q, ImgMd(fig))}

\* position p of the result lies inside an inserted image reference
InsideInserted(p) ==
    \E j \in 1..Len(rin.figures) :
        \E q \in InsertedAt(rin.figures[j]) : q <= p /\ p < q + Len(ImgMd(rin.figures[j]))

\* the image reference of fig at position q follows a reference to fig
\* itself: the marker at p, the number, and no digit going on after the
\* inserted reference when the number ends right before it
FollowsOwnReference(fig, q, p) ==
    /\ RefMatchEnd(SubSeq(rout, 1, q - 1), p, fig.num) = q
    /\ ~InsideInserted(p)
    /\ LET e == SkipBlanks(rout, p + 1) + Len(fig.num)
           after == q + Len(ImgMd(fig))
       IN  e = q => ~(after <= Len(rout) /\ rout[after] \in Digits)

\* C30: the image reference for caption number n stands only directly after
\* a reference to figure n itself, never inside a reference to a figure
\* whose number begins with n, never inside an image reference inserted for
\* another figure.
C30_InsertionTarget ==
    rpc = "done" =>
        \A i \in 1..Len(rin.figures) :
            \A q \in InsertedAt(rin.figures[i]) :
                \E p \in 1..(q - 1) : FollowsOwnReference(rin.figures[i], q, p)
====
